---- MODULE Spec2Model ----
(***************************************************************************)
(* A model of the GDSO TIS client: the retry executor (withRetry and its   *)
(* default classifier), the TTL/LRU cache, the SGTIN codec and the         *)
(* GdsoService orchestration (resolveOns, authenticate,                    *)
(* callManufacturerApi, getTireInfo).                                      *)
(*                                                                         *)
(* Strings that the code inspects character by character are sequences of  *)
(* one-character strings; times are milliseconds.                          *)
(***************************************************************************)
EXTENDS Integers, Sequences, FiniteSets, TLC

VARIABLES
    retry,      \* the frame of the running withRetry call (manufacturers.js:294-330)
    clsErr,     \* classifier development: the error handed to defaultShouldRetry
    clsOut,     \* classifier development: its verdict ("unset" before the call)
    cfg,        \* GdsoService constructor options: credentials, useCache, cacheTtlMs
    now,        \* Date.now(), in ms
    onsCache,   \* this.onsCache.cache, oldest entry first
    token,      \* this.token
    tokenExpiry, \* this.tokenExpiry
    frame,      \* the running call on the service: entry point, arguments, locals, outcome
    net,        \* the network requests the running call has issued, in order
    lastResp,   \* the response most recently delivered to the running call
    stored,     \* history: per GTIN-13, the last resolution obtained from DNS and its time
    lru,        \* LRUCache development: an instance, its last operation and the use history
    arg,        \* codec development: the argument handed to the function
    out         \* codec development: what the function returned or threw

ClsVars == <<clsErr, clsOut>>
DevVars == <<lru, arg, out>>
ServiceVars == <<cfg, now, onsCache, token, tokenExpiry, frame, net, lastResp, stored>>
vars == <<retry, clsErr, clsOut, cfg, now, onsCache, token, tokenExpiry, frame, net,
          lastResp, stored, lru, arg, out>>

\* ------------------------------------------------------------------------
\* Bounds of the model
\* ------------------------------------------------------------------------
MaxAttemptsBound == 4
MaxElapsed == 3000
MaxCacheSize == 2
MaxBodyLen == 6
MaxDigits == 3

\* ------------------------------------------------------------------------
\* Values and errors
\* ------------------------------------------------------------------------
Undefined == "undefined"
\* Numeric fields hold undefined and null as negative numbers, so that they
\* stay comparable with the numbers they stand beside.
UndefinedNum == 0 - 1
NullNum == 0 - 2

\* An error object as the classifier sees it: error.name, error.code and
\* error.details?.httpStatus (UndefinedNum when details or the field is
\* absent, NullNum when a GdsoError was built without a status).
Err(name, code, status) == [name |-> name, code |-> code, httpStatus |-> status,
                            attempts |-> 0,
                            last |-> <<Undefined, Undefined, UndefinedNum>>]

NoError == Err(Undefined, Undefined, UndefinedNum)

PlainError == Err("Error", Undefined, UndefinedNum)
NoRetryError == Err("Error", "NO_RETRY", UndefinedNum)
SgtinParseError == Err("SgtinParseError", "SGTIN_PARSE_ERROR", UndefinedNum)
DnsResolutionError(status) == Err("DnsResolutionError", "DNS_RESOLUTION_ERROR", status)
NaptrNotFoundError == Err("NaptrNotFoundError", "NAPTR_NOT_FOUND", NullNum)
AuthenticationError(status) == Err("AuthenticationError", "AUTH_ERROR", status)
CredentialsMissingError == Err("CredentialsMissingError", "CREDENTIALS_MISSING", NullNum)
TimeoutError == Err("TimeoutError", "TIMEOUT_ERROR", UndefinedNum)
\* What fetch rejects with: a DOMException named TimeoutError when
\* AbortSignal.timeout fires, a TypeError ("fetch failed") otherwise.
FetchTimeout == Err("TimeoutError", "23", UndefinedNum)
FetchFailed == Err("TypeError", Undefined, UndefinedNum)
SyntaxError == Err("SyntaxError", Undefined, UndefinedNum)

\* RetryExhaustedError: `attempts` is the constructor's second argument,
\* `last` names the wrapped error (its name, code and status).
RetryExhaustedError(attempts, lastError) ==
    [name |-> "RetryExhaustedError", code |-> "RETRY_EXHAUSTED", httpStatus |-> UndefinedNum,
     attempts |-> attempts,
     last |-> <<lastError.name, lastError.code, lastError.httpStatus>>]

Wrapped(e) == <<e.name, e.code, e.httpStatus>>

\* ------------------------------------------------------------------------
\* defaultShouldRetry (manufacturers.js:337-353)
\* ------------------------------------------------------------------------
IsNumber(x) == x >= 0

StatusRetryableOff(status) == IsNumber(status) /\ status > 500

\* status >= 500 || status === 429 ; null and undefined compare false
StatusRetryable(status) == IsNumber(status) /\ (status >= 500 \/ status = 429)

defaultShouldRetry(error) ==
    IF error.code = "SGTIN_PARSE_ERROR" THEN FALSE
    ELSE IF error.code = "CREDENTIALS_MISSING" THEN FALSE
    ELSE IF error.name = "TimeoutError" THEN TRUE
    ELSE IF error.code = "ECONNRESET" THEN TRUE
    ELSE IF error.code = "ENOTFOUND" THEN TRUE
    ELSE IF error.code = "ETIMEDOUT" THEN TRUE
    ELSE StatusRetryable(error.httpStatus)

\* ------------------------------------------------------------------------
\* withRetry (manufacturers.js:294-330)
\* ------------------------------------------------------------------------
RETRY_maxAttempts == 3
RETRY_delayMs == 1000
RETRY_backoffMultiplier == 2

\* Destructuring with defaults: an option left undefined takes RETRY's value,
\* shouldRetry defaults to defaultShouldRetry and onRetry to null.
WithDefaults(options) ==
    [maxAttempts |-> IF options.maxAttempts = UndefinedNum THEN RETRY_maxAttempts
                     ELSE options.maxAttempts,
     delayMs |-> IF options.delayMs = UndefinedNum THEN RETRY_delayMs ELSE options.delayMs,
     backoffMultiplier |-> IF options.backoffMultiplier = UndefinedNum
                           THEN RETRY_backoffMultiplier ELSE options.backoffMultiplier,
     shouldRetry |-> IF options.shouldRetry = Undefined THEN "default"
                     ELSE options.shouldRetry,
     onRetry |-> options.onRetry]

DefaultOptions(hasOnRetry) ==
    [maxAttempts |-> UndefinedNum, delayMs |-> UndefinedNum,
     backoffMultiplier |-> UndefinedNum,
     shouldRetry |-> Undefined, onRetry |-> hasOnRetry]

\* The shouldRetry callbacks in use: the default classifier, `() => true`
\* and `err => err.code !== 'NO_RETRY'` (tests/utils.test.js:129,199).
ShouldRetry(policy, error) ==
    CASE policy = "default" -> defaultShouldRetry(error)
      [] policy = "always" -> TRUE
      [] policy = "notNoRetry" -> error.code # "NO_RETRY"

\* The log of a withRetry call: what it did (invoke fn, call onRetry, sleep) and
\* what fn answered (ok with a value, fail with an error), in order.
Ev(ev, n, d, e) == [ev |-> ev, n |-> n, d |-> d, err |-> e, val |-> Undefined]
EvOk(n, v) == [ev |-> "ok", n |-> n, d |-> 0, err |-> NoError, val |-> v]

IdleRetry ==
    [pc |-> "idle", opts |-> WithDefaults(DefaultOptions(FALSE)), attempt |-> 0,
     currentDelay |-> 0, lastError |-> NoError, value |-> Undefined, error |-> NoError,
     log |-> <<>>]

\* `attempt >= maxAttempts || !shouldRetry(error)` (manufacturers.js:314)
ShouldBreakOffByOne(attempt, maxAttempts, retryable) ==
    attempt + 1 >= maxAttempts \/ ~retryable

ShouldBreakIgnoresClassifier(attempt, maxAttempts, retryable) ==
    attempt >= maxAttempts

ShouldBreak(attempt, maxAttempts, retryable) ==
    attempt >= maxAttempts \/ ~retryable

\* Entering withRetry with maxAttempts >= 1: the loop starts at attempt 1 and
\* invokes fn, which suspends.
WR_Start(options) ==
    LET o == WithDefaults(options) IN
    [pc |-> "calling", opts |-> o, attempt |-> 1, currentDelay |-> o.delayMs,
     lastError |-> NoError, value |-> Undefined, error |-> NoError,
     log |-> <<Ev("invoke", 1, 0, NoError)>>]

WR_SuccessKeepsLooping(r, v) ==
    [r EXCEPT !.value = v, !.attempt = r.attempt + 1,
              !.pc = IF r.attempt < r.opts.maxAttempts THEN "calling" ELSE "returned",
              !.log = Append(r.log, EvOk(r.attempt, v)) \o
                      (IF r.attempt < r.opts.maxAttempts
                       THEN <<Ev("invoke", r.attempt + 1, 0, NoError)>>
                       ELSE <<>>)]

\* `return await fn()` resolved: withRetry returns the value.
WR_Success(r, v) ==
    [r EXCEPT !.pc = "returned", !.value = v, !.log = Append(r.log, EvOk(r.attempt, v))]

WR_FailureNoBackoff(r, e) ==
    LET failed == [r EXCEPT !.lastError = e,
                            !.log = Append(r.log, Ev("fail", r.attempt, 0, e))] IN
    IF ShouldBreak(r.attempt, r.opts.maxAttempts, ShouldRetry(r.opts.shouldRetry, e))
    THEN [failed EXCEPT !.pc = "raised",
                        !.error = RetryExhaustedError(r.opts.maxAttempts, e)]
    ELSE [failed EXCEPT !.pc = "sleeping",
             !.log = (IF r.opts.onRetry
                      THEN Append(failed.log, Ev("onRetry", r.attempt, r.opts.delayMs, NoError))
                      ELSE failed.log)
                     \o <<Ev("sleep", r.attempt, r.opts.delayMs, NoError)>>]

\* fn rejected with e: remember it, then either leave the loop and throw
\* RetryExhaustedError(operationName, maxAttempts, lastError), or call onRetry
\* (when given) and start sleeping for currentDelay.
WR_Failure(r, e) ==
    LET failed == [r EXCEPT !.lastError = e,
                            !.log = Append(r.log, Ev("fail", r.attempt, 0, e))] IN
    IF ShouldBreak(r.attempt, r.opts.maxAttempts, ShouldRetry(r.opts.shouldRetry, e))
    THEN [failed EXCEPT !.pc = "raised",
                        !.error = RetryExhaustedError(r.opts.maxAttempts, e)]
    ELSE [failed EXCEPT !.pc = "sleeping",
             !.log = (IF r.opts.onRetry
                      THEN Append(failed.log, Ev("onRetry", r.attempt, r.currentDelay, NoError))
                      ELSE failed.log)
                     \o <<Ev("sleep", r.attempt, r.currentDelay, NoError)>>]

\* a variant, used to test the properties: the sleep never ends
WR_WakeStaysAsleep(r) == r

\* The sleep is over: currentDelay *= backoffMultiplier, attempt++, and the
\* loop condition attempt <= maxAttempts decides whether fn is invoked again.
WR_Wake(r) ==
    LET a == r.attempt + 1 IN
    IF a <= r.opts.maxAttempts
    THEN [r EXCEPT !.attempt = a,
                   !.currentDelay = r.currentDelay * r.opts.backoffMultiplier,
                   !.pc = "calling",
                   !.log = Append(r.log, Ev("invoke", a, 0, NoError))]
    ELSE [r EXCEPT !.attempt = a,
                   !.currentDelay = r.currentDelay * r.opts.backoffMultiplier,
                   !.pc = "raised",
                   !.error = RetryExhaustedError(r.opts.maxAttempts, r.lastError)]

\* ------------------------------------------------------------------------
\* Character strings
\* ------------------------------------------------------------------------
DigitChars == <<"0", "1", "2", "3", "4", "5", "6", "7", "8", "9">>
\* parseInt(c, 10) of a digit character
DigitVal(c) == (CHOOSE i \in 1..10 : DigitChars[i] = c) - 1

IsDigits(s) == Len(s) > 0 /\ \A i \in 1..Len(s) : \E k \in 1..10 : DigitChars[k] = s[i]
RECURSIVE Join(_, _)
Join(parts, sep) ==
    IF Len(parts) = 0 THEN <<>>
    ELSE IF Len(parts) = 1 THEN parts[1]
    ELSE parts[1] \o sep \o Join(Tail(parts), sep)
\* a set of positions, in increasing order
RECURSIVE SortedSeq(_)
SortedSeq(S) ==
    IF S = {} THEN <<>>
    ELSE LET m == CHOOSE x \in S : \A y \in S : x <= y IN <<m>> \o SortedSeq(S \ {m})
\* s.includes(p)
Includes(s, p) ==
    \E i \in 1..(Len(s) - Len(p) + 1) : SubSeq(s, i, i + Len(p) - 1) = p

\* ------------------------------------------------------------------------
\* SGTIN codec (gdso-service.js:494-545)
\* ------------------------------------------------------------------------
UrnPrefix == <<"u", "r", "n", ":", "e", "p", "c", ":", "i", "d", ":", "s", "g", "t", "i", "n", ":">>

NoParse ==
    [ok |-> FALSE, companyPrefix |-> <<>>, indicatorItemRef |-> <<>>,
     serialNumber |-> <<>>, urn |-> <<>>]

\* /^urn:epc:id:sgtin:(\d+)\.(\d+)\.(\d+)$/ : after the prefix come exactly
\* three non-empty runs of digits separated by two dots, up to the end.
\* ok = FALSE stands for the SgtinParseError that parseSgtin throws.
parseSgtin(sgtinUrn) ==
    IF Len(sgtinUrn) = 0 \/ Len(sgtinUrn) < Len(UrnPrefix)
       \/ SubSeq(sgtinUrn, 1, Len(UrnPrefix)) # UrnPrefix THEN NoParse
    ELSE
        LET rest == SubSeq(sgtinUrn, Len(UrnPrefix) + 1, Len(sgtinUrn))
            dots == SortedSeq({i \in 1..Len(rest) : rest[i] = "."})
        IN  IF Len(dots) # 2 THEN NoParse
            ELSE
                LET a == SubSeq(rest, 1, dots[1] - 1)
                    b == SubSeq(rest, dots[1] + 1, dots[2] - 1)
                    c == SubSeq(rest, dots[2] + 1, Len(rest))
                IN  IF IsDigits(a) /\ IsDigits(b) /\ IsDigits(c)
                    THEN [ok |-> TRUE, companyPrefix |-> a, indicatorItemRef |-> b,
                          serialNumber |-> c, urn |-> sgtinUrn]
                    ELSE NoParse

\* a variant, used to test the properties: the two weights exchanged
RECURSIVE WeightedSumSwapped(_, _)
WeightedSumSwapped(digits, i) ==
    IF i >= Len(digits) THEN 0
    ELSE DigitVal(digits[i + 1]) * (IF (Len(digits) - i) % 2 = 0 THEN 3 ELSE 1)
         + WeightedSumSwapped(digits, i + 1)

\* a variant, used to test the properties: the parity counted from the left
RECURSIVE WeightedSumFromLeft(_, _)
WeightedSumFromLeft(digits, i) ==
    IF i >= Len(digits) THEN 0
    ELSE DigitVal(digits[i + 1]) * (IF i % 2 = 0 THEN 3 ELSE 1)
         + WeightedSumFromLeft(digits, i + 1)

\* sum of digit * (1 if (length - i) is even, else 3), i counted from 0
RECURSIVE WeightedSum(_, _)
WeightedSum(digits, i) ==
    IF i >= Len(digits) THEN 0
    ELSE DigitVal(digits[i + 1]) * (IF (Len(digits) - i) % 2 = 0 THEN 1 ELSE 3)
         + WeightedSum(digits, i + 1)

calculateCheckDigit(digits) == (10 - (WeightedSum(digits, 0) % 10)) % 10

sgtinToGtin13(parsed) ==
    LET indicator == <<parsed.indicatorItemRef[1]>>
        itemRef == Tail(parsed.indicatorItemRef)
        gtin14Base == indicator \o parsed.companyPrefix \o itemRef
        checkDigit == calculateCheckDigit(gtin14Base)
    IN  Tail(gtin14Base \o <<DigitChars[checkDigit + 1]>>)

\* config.ons.suffix of the testing environment (config.js:29)
OnsSuffix == <<"g", "t", "i", "n", ".", "g", "s", "1", ".", "i", "d", ".", "t", "e", "s", "t", "i", "n", "g", ".", "g", "d", "s", "o", ".", "o", "r", "g">>

\* a variant, used to test the properties: the digits in their own order
gtinToFqdnForward(gtin) ==
    Join([i \in 1..Len(gtin) |-> <<gtin[i]>>], <<".">>) \o <<".">> \o OnsSuffix

gtinToFqdn(gtin) ==
    Join([i \in 1..Len(gtin) |-> <<gtin[Len(gtin) + 1 - i]>>], <<".">>) \o <<".">> \o OnsSuffix

\* ------------------------------------------------------------------------
\* LRUCache (manufacturers.js:372-479): the Map as the sequence of its
\* entries in insertion order, oldest first
\* ------------------------------------------------------------------------
\* the keys the cache under study is used with
CacheKeys == {"a", "b", "c"}

LRUIndex(cache, key) ==
    IF \E i \in 1..Len(cache) : cache[i].key = key
    THEN CHOOSE i \in 1..Len(cache) : cache[i].key = key
    ELSE 0

LRURemove(cache, key) ==
    LET i == LRUIndex(cache, key) IN
    IF i = 0 THEN cache ELSE SubSeq(cache, 1, i - 1) \o SubSeq(cache, i + 1, Len(cache))

\* a variant, used to test the properties
ExpiredStrict(time, expiry) == time >= expiry

\* Date.now() > entry.expiry
Expired(time, expiry) == time > expiry

\* a variant, used to test the properties
LRUGetNoTouch(cache, key, time) ==
    LET i == LRUIndex(cache, key) IN
    IF i = 0 THEN [cache |-> cache, hit |-> FALSE]
    ELSE IF Expired(time, cache[i].expiry)
         THEN [cache |-> LRURemove(cache, key), hit |-> FALSE]
         ELSE [cache |-> cache, hit |-> TRUE]

\* get(key): a missing key is a miss; an expired entry is deleted and is a
\* miss; otherwise the entry moves to the end of the Map and its value is
\* returned (hit, with the entry time last in `cache`).
LRUGet(cache, key, time) ==
    LET i == LRUIndex(cache, key) IN
    IF i = 0 THEN [cache |-> cache, hit |-> FALSE]
    ELSE IF Expired(time, cache[i].expiry)
         THEN [cache |-> LRURemove(cache, key), hit |-> FALSE]
         ELSE [cache |-> Append(LRURemove(cache, key), cache[i]), hit |-> TRUE]

\* a variant, used to test the properties
EvictWhileOver(cache, maxSize) ==
    IF Len(cache) > maxSize THEN Tail(cache) ELSE cache

\* a variant, used to test the properties
EvictSoonestExpiry(cache, maxSize) ==
    IF Len(cache) >= maxSize /\ Len(cache) > 0
    THEN LET i == CHOOSE j \in 1..Len(cache) :
                     \A m \in 1..Len(cache) : cache[j].expiry <= cache[m].expiry
         IN  SubSeq(cache, 1, i - 1) \o SubSeq(cache, i + 1, Len(cache))
    ELSE cache

RECURSIVE EvictWhileFull(_, _)
EvictWhileFull(cache, maxSize) ==
    IF Len(cache) >= maxSize /\ Len(cache) > 0
    THEN EvictWhileFull(Tail(cache), maxSize)
    ELSE cache

\* a variant, used to test the properties
LRUSetEvictsFirst(cache, key, value, time, ttlMs, maxSize) ==
    Append(LRURemove(EvictWhileFull(cache, maxSize), key),
           [key |-> key, value |-> value, expiry |-> time + ttlMs])

\* set(key, value, ttlMs): delete the key, evict from the front while the size
\* is at or above maxSize, then insert last with expiry = time + ttlMs
LRUSet(cache, key, value, time, ttlMs, maxSize) ==
    Append(EvictWhileFull(LRURemove(cache, key), maxSize),
           [key |-> key, value |-> value, expiry |-> time + ttlMs])

\* ------------------------------------------------------------------------
\* Manufacturer profiles and candidate URLs (manufacturers.js:10-265)
\* ------------------------------------------------------------------------
PatternRoot == <<"{", "b", "a", "s", "e", "U", "r", "l", "}", "/", "{", "s", "g", "t", "i", "n", "}">>
PatternTire == <<"{", "b", "a", "s", "e", "U", "r", "l", "}", "/", "t", "i", "r", "e", "/", "{", "s", "g", "t", "i", "n", "}">>
PatternTyre == <<"{", "b", "a", "s", "e", "U", "r", "l", "}", "/", "t", "y", "r", "e", "/", "{", "s", "g", "t", "i", "n", "}">>
NoPattern == <<>>

\* MANUFACTURERS: company prefix, name, urlPattern; every entry has
\* encodeSgtin: true, headers: {} and transformResponse: null
ManufacturerTable ==
    <<
       <<<<"0", "8", "6", "6", "9", "9">>, "Michelin", PatternTire>>,
       <<<<"0", "5", "1", "3", "2", "4">>, "Continental", PatternRoot>>,
       <<<<"0", "5", "1", "3", "4", "2">>, "Continental", PatternRoot>>,
       <<<<"4", "0", "1", "9", "2", "3", "8">>, "Continental", PatternRoot>>,
       <<<<"8", "0", "1", "9", "2", "2", "7">>, "Pirelli", PatternRoot>>,
       <<<<"6", "9", "7", "6", "6", "2">>, "Goodyear", PatternTire>>,
       <<<<"0", "1", "9", "5", "0", "2">>, "Goodyear", PatternTire>>,
       <<<<"0", "1", "9", "3", "4", "3">>, "Bridgestone", PatternTire>>,
       <<<<"4", "9", "0", "2", "0", "2", "7">>, "Bridgestone", PatternTire>>,
       <<<<"8", "8", "0", "1", "9", "5", "4">>, "Hankook", PatternRoot>>,
       <<<<"8", "8", "0", "1", "9", "5", "6">>, "Kumho", PatternRoot>>,
       <<<<"4", "9", "0", "7", "5", "8", "7">>, "Yokohama", PatternTire>>,
       <<<<"4", "9", "8", "1", "9", "1", "0">>, "Sumitomo (Falken/Dunlop)", PatternTire>>,
       <<<<"4", "5", "7", "1", "2", "7", "1">>, "Toyo Tires", PatternTire>>,
       <<<<"8", "8", "0", "7", "6", "2", "2">>, "Nexen", PatternRoot>>,
       <<<<"6", "9", "2", "4", "0", "6", "4">>, "Giti", PatternRoot>>,
       <<<<"8", "0", "1", "9", "2", "0", "5">>, "Prometeon", PatternRoot>>
    >>

\* A profile: urlPattern (NoPattern when the key is absent), urlPatterns (the
\* list, with hasPatterns telling whether the key is present), encodeSgtin and
\* whether a transformResponse hook is set. The name is the pair of the
\* table's name and, for an unknown prefix, the prefix it is completed with.
Profile(name, prefix, urlPattern, hasPatterns, urlPatterns, encodeSgtin, hasTransform) ==
    [name |-> <<name, prefix>>, urlPattern |-> urlPattern, hasPatterns |-> hasPatterns,
     urlPatterns |-> urlPatterns, encodeSgtin |-> encodeSgtin,
     transformResponse |-> hasTransform]

DEFAULT_MANUFACTURER(prefix) ==
    Profile("Unknown", prefix, NoPattern, TRUE,
            <<PatternRoot, PatternTire, PatternTyre>>, TRUE, FALSE)

getManufacturerConfig(companyPrefix) ==
    IF \E i \in 1..Len(ManufacturerTable) : ManufacturerTable[i][1] = companyPrefix
    THEN LET i == CHOOSE j \in 1..Len(ManufacturerTable) :
                      ManufacturerTable[j][1] = companyPrefix
         IN  Profile(ManufacturerTable[i][2], <<>>, ManufacturerTable[i][3], FALSE, <<>>,
                     TRUE, FALSE)
    ELSE DEFAULT_MANUFACTURER(companyPrefix)

\* encodeURIComponent over the characters that occur here: letters, digits and
\* . - _ are kept, ':' and '/' are percent-encoded
EncodeChar(c) ==
    IF c = ":" THEN <<"%", "3", "A">> ELSE IF c = "/" THEN <<"%", "2", "F">> ELSE <<c>>

RECURSIVE encodeURIComponent(_)
encodeURIComponent(s) ==
    IF Len(s) = 0 THEN <<>> ELSE EncodeChar(Head(s)) \o encodeURIComponent(Tail(s))

\* String.prototype.replace(pattern, replacement) with a string pattern: the
\* first occurrence only (the replacements used here hold no '$')
ReplaceFirst(s, pat, rep) ==
    IF Includes(s, pat)
    THEN LET i == CHOOSE k \in 1..(Len(s) - Len(pat) + 1) :
                      /\ SubSeq(s, k, k + Len(pat) - 1) = pat
                      /\ \A j \in 1..(k - 1) : SubSeq(s, j, j + Len(pat) - 1) # pat
         IN  SubSeq(s, 1, i - 1) \o rep \o SubSeq(s, i + Len(pat), Len(s))
    ELSE s

\* a variant, used to test the properties: the base URL keeps its trailing slash
FillPatternKeepSlash(pattern, baseUrl, sgtinText) ==
    ReplaceFirst(ReplaceFirst(pattern, <<"{", "b", "a", "s", "e", "U", "r", "l", "}">>, baseUrl),
                 <<"{", "s", "g", "t", "i", "n", "}">>, sgtinText)

FillPattern(pattern, baseUrl, sgtinText) ==
    LET base == IF Len(baseUrl) > 0 /\ baseUrl[Len(baseUrl)] = "/"
                THEN SubSeq(baseUrl, 1, Len(baseUrl) - 1) ELSE baseUrl
    IN  ReplaceFirst(ReplaceFirst(pattern, <<"{", "b", "a", "s", "e", "U", "r", "l", "}">>, base),
                     <<"{", "s", "g", "t", "i", "n", "}">>, sgtinText)

buildApiUrl(baseUrl, sgtin, manufacturerConfig) ==
    LET pattern == IF manufacturerConfig.urlPattern # NoPattern
                   THEN manufacturerConfig.urlPattern
                   ELSE manufacturerConfig.urlPatterns[1]
        encodedSgtin == IF manufacturerConfig.encodeSgtin
                        THEN encodeURIComponent(sgtin) ELSE sgtin
    IN  FillPattern(pattern, baseUrl, encodedSgtin)

RECURSIVE UrlsOfPatterns(_, _, _)
UrlsOfPatterns(patterns, baseUrl, sgtin) ==
    IF Len(patterns) = 0 THEN <<>>
    ELSE << FillPattern(Head(patterns), baseUrl, encodeURIComponent(sgtin)),
            FillPattern(Head(patterns), baseUrl, sgtin) >>
         \o UrlsOfPatterns(Tail(patterns), baseUrl, sgtin)

\* [...new Set(urls)]: first occurrences, in order
RECURSIVE Dedupe(_)
Dedupe(urls) ==
    IF Len(urls) = 0 THEN <<>>
    ELSE LET front == Dedupe(SubSeq(urls, 1, Len(urls) - 1))
             last == urls[Len(urls)]
         IN  IF \E i \in 1..Len(front) : front[i] = last THEN front
             ELSE Append(front, last)

buildAllPossibleUrls(baseUrl, sgtin, manufacturerConfig) ==
    LET patterns == IF manufacturerConfig.hasPatterns
                    THEN manufacturerConfig.urlPatterns
                    ELSE <<manufacturerConfig.urlPattern>>
    IN  Dedupe(UrlsOfPatterns(patterns, baseUrl, sgtin))

\* the candidate list of callManufacturerApi (gdso-service.js:746-758)
CandidateUrls(apiUrl, sgtin, manufacturer) ==
    Dedupe(IF manufacturer.hasPatterns
           THEN buildAllPossibleUrls(apiUrl, sgtin, manufacturer)
           ELSE << buildApiUrl(apiUrl, sgtin, manufacturer),
                   buildApiUrl(apiUrl, sgtin,
                               [manufacturer EXCEPT !.encodeSgtin = ~manufacturer.encodeSgtin]) >>)

\* ------------------------------------------------------------------------
\* NAPTR records (gdso-service.js:607-622)
\* ------------------------------------------------------------------------

\* the maximal runs of non-blank characters of s, as <<first, last>> positions
TokenStarts(s) ==
    SortedSeq({i \in 1..Len(s) : s[i] # " " /\ (i = 1 \/ s[i - 1] = " ")})
TokenEnds(s) ==
    SortedSeq({i \in 1..Len(s) :
                  s[i] # " " /\ (i = Len(s) \/ s[i + 1] = " ")})
Token(s, n) == SubSeq(s, TokenStarts(s)[n], TokenEnds(s)[n])

\* /!.*!(https?:\/\/[^!]+)!/ on the regexp field: the capture starts after the
\* last '!' that has a '!' before it, is followed by http:// or https://, at
\* least one more character, and a closing '!'; it ends before that '!'.
UrlStartsAt(f, q) ==
    /\ f[q] = "!"
    /\ \E p \in 1..(q - 1) : f[p] = "!"
    /\ \E scheme \in {<<"h", "t", "t", "p", ":", "/", "/">>, <<"h", "t", "t", "p", "s", ":", "/", "/">>} :
          /\ q + Len(scheme) <= Len(f)
          /\ SubSeq(f, q + 1, q + Len(scheme)) = scheme
          /\ \E r \in (q + Len(scheme) + 2)..Len(f) :
                /\ f[r] = "!"
                /\ \A k \in (q + 1)..(r - 1) : f[k] # "!"

ExtractUrl(f) ==
    IF \E q \in 1..Len(f) : UrlStartsAt(f, q)
    THEN LET q == CHOOSE k \in 1..Len(f) :
                      UrlStartsAt(f, k) /\ \A j \in (k + 1)..Len(f) : ~UrlStartsAt(f, j)
             r == CHOOSE k \in (q + 1)..Len(f) :
                      f[k] = "!" /\ \A j \in (q + 1)..(k - 1) : f[j] # "!"
         IN  [ok |-> TRUE, url |-> SubSeq(f, q + 1, r - 1)]
    ELSE [ok |-> FALSE, url |-> <<>>]

\* /^\d+\s+\d+\s+\S+\s+(\S+)\s+(!.*!)\s+\S+$/ : the first four fields are the
\* first four tokens, the last field is the last token, and the regexp field
\* is everything from the fifth token to the last but one; it must begin and
\* end with '!'. The service is the fourth token as written.
ParseNaptrRecord(data) ==
    LET n == Len(TokenStarts(data)) IN
    IF Len(data) = 0 \/ data[1] = " " \/ data[Len(data)] = " " \/ n < 6
    THEN [ok |-> FALSE, service |-> <<>>, url |-> <<>>]
    ELSE LET field == SubSeq(data, TokenStarts(data)[5], TokenEnds(data)[n - 1])
             url == ExtractUrl(field)
         IN  IF /\ IsDigits(Token(data, 1))
                /\ IsDigits(Token(data, 2))
                /\ Len(field) >= 2
                /\ field[1] = "!"
                /\ field[Len(field)] = "!"
                /\ url.ok
             THEN [ok |-> TRUE, service |-> Token(data, 4), url |-> url.url]
             ELSE [ok |-> FALSE, service |-> <<>>, url |-> <<>>]

\* the services list: one descriptor per record that matches, in answer order
RECURSIVE ParseAnswers(_)
ParseAnswers(answer) ==
    IF Len(answer) = 0 THEN <<>>
    ELSE LET rec == ParseNaptrRecord(Head(answer)) IN
         (IF rec.ok THEN <<[service |-> rec.service, url |-> rec.url]>> ELSE <<>>)
         \o ParseAnswers(Tail(answer))

ServiceMarker == <<"G", "e", "t", "T", "i", "r", "e", "B", "y", "S", "g", "t", "i", "n">>

\* a variant, used to test the properties: the last service with the marker
FindApiServiceLast(services) ==
    IF \E i \in 1..Len(services) : Includes(services[i].service, ServiceMarker)
    THEN CHOOSE i \in 1..Len(services) :
            /\ Includes(services[i].service, ServiceMarker)
            /\ \A j \in (i + 1)..Len(services) : ~Includes(services[j].service, ServiceMarker)
    ELSE 0

\* services.find(s => s.service.includes('GetTireBySgtin')); 0 when none
FindApiService(services) ==
    IF \E i \in 1..Len(services) : Includes(services[i].service, ServiceMarker)
    THEN CHOOSE i \in 1..Len(services) :
            /\ Includes(services[i].service, ServiceMarker)
            /\ \A j \in 1..(i - 1) : ~Includes(services[j].service, ServiceMarker)
    ELSE 0

\* ------------------------------------------------------------------------
\* GdsoService: state (gdso-service.js:447-482)
\* ------------------------------------------------------------------------
NaNNum == 0 - 3
NoToken == "null"

NoManufacturer == Profile("none", <<>>, NoPattern, FALSE, <<>>, FALSE, FALSE)
NoOns ==
    [parsed |-> NoParse, gtin13 |-> <<>>, fqdn |-> <<>>, manufacturer |-> NoManufacturer,
     apiUrl |-> <<>>, services |-> <<>>]

\* a manufacturer payload (0 for null); the transformResponse hook marks what
\* it returns
Data(payload) == [payload |-> payload, transformed |-> FALSE]
NullData == Data(0)

NoTire ==
    [sgtin |-> <<>>, manufacturer |-> NoManufacturer.name, gtin13 |-> <<>>, apiUrl |-> <<>>,
     data |-> NullData]

Request(kind, target, bearer) == [kind |-> kind, target |-> target, bearer |-> bearer]

\* A response as the code reads it: fetch rejects ("timeout", "failed") or
\* resolves with a status; a 2xx body is JSON (json = TRUE) or is not; `body`
\* indexes the content among the bodies of the request's kind.
Resp(kind, status, json, body) ==
    [kind |-> kind, status |-> status, json |-> json, body |-> body, hookThrows |-> FALSE]
NoResp == Resp("none", 0, FALSE, 0)
ResponseOk(r) == r.kind = "response" /\ r.status >= 200 /\ r.status <= 299

IdleFrame ==
    [pc |-> "idle", entry |-> "none", sgtin |-> <<>>, apiUrl |-> <<>>,
     manufacturer |-> NoManufacturer, resolved |-> FALSE, ons |-> NoOns,
     authed |-> FALSE, bearer |-> NoToken, urls |-> <<>>, urlIdx |-> 0,
     retrying |-> "none", outcome |-> "none", error |-> NoError,
     resultOns |-> NoOns, resultToken |-> NoToken, resultData |-> NullData,
     resultTire |-> NoTire, startNow |-> 0, startStored |-> {},
     sgtins |-> <<>>, resultBatch |-> [kind |-> "null", items |-> <<>>]]

\* The mutable state a step of a call reads and writes, as one record
Cur ==
    [now |-> now, onsCache |-> onsCache, token |-> token, tokenExpiry |-> tokenExpiry,
     frame |-> frame, net |-> net, retry |-> retry, stored |-> stored]

Apply(S) ==
    /\ now' = S.now
    /\ onsCache' = S.onsCache
    /\ token' = S.token
    /\ tokenExpiry' = S.tokenExpiry
    /\ frame' = S.frame
    /\ net' = S.net
    /\ retry' = S.retry
    /\ stored' = S.stored

Raise(S, e) ==
    [S EXCEPT !.frame.pc = "done", !.frame.outcome = "raised", !.frame.error = e]

Send(S, kind, target, bearer) == [S EXCEPT !.net = Append(S.net, Request(kind, target, bearer))]

\* ------------------------------------------------------------------------
\* callManufacturerApi: the candidate loop (gdso-service.js:743-799)
\* ------------------------------------------------------------------------
ReturnData(S, data) ==
    IF S.frame.entry = "getTireInfo"
    THEN [S EXCEPT !.frame.pc = "done", !.frame.outcome = "returned",
                   !.frame.resultData = data,
                   !.frame.resultTire =
                       [sgtin |-> S.frame.sgtin, manufacturer |-> S.frame.ons.manufacturer.name,
                        gtin13 |-> S.frame.ons.gtin13, apiUrl |-> S.frame.ons.apiUrl,
                        data |-> data]]
    ELSE [S EXCEPT !.frame.pc = "done", !.frame.outcome = "returned",
                   !.frame.resultData = data]

\* fetch(url) of candidate i, or `return null` after the last one
TryCandidate(S, i) ==
    IF i <= Len(S.frame.urls)
    THEN Send([S EXCEPT !.frame.pc = "get", !.frame.urlIdx = i],
              "get", S.frame.urls[i], S.frame.bearer)
    ELSE ReturnData(S, NullData)

\* What one candidate's answer yields: "data" when response.ok, the body
\* parses and the hook (when set) returns; "next" otherwise. response.json()
\* and the hook run inside the try block, so a rejection there is caught, as a
\* rejected fetch is, and the loop goes on.
CandidateVerdictAnyStatus(resp, hookThrows, manufacturer) ==
    IF resp.kind = "response" THEN "data" ELSE "next"

CandidateVerdict(resp, hookThrows, manufacturer) ==
    IF ResponseOk(resp)
    THEN IF ~resp.json THEN "next"
         ELSE IF manufacturer.transformResponse /\ hookThrows THEN "next"
         ELSE "data"
    ELSE "next"

CandidatePayload(resp, manufacturer) ==
    [Data(resp.body) EXCEPT !.transformed = manufacturer.transformResponse]

OnGetResponse(S, resp, hookThrows) ==
    IF CandidateVerdict(resp, hookThrows, S.frame.manufacturer) = "data"
    THEN ReturnData(S, CandidatePayload(resp, S.frame.manufacturer))
    ELSE TryCandidate(S, S.frame.urlIdx + 1)

\* after `await this.authenticate()`: build the candidates, try the first
StartCandidates(S) ==
    TryCandidate([S EXCEPT !.frame.urls =
                      CandidateUrls(S.frame.apiUrl, S.frame.sgtin, S.frame.manufacturer)], 1)

\* ------------------------------------------------------------------------
\* callBatchApi: the batch URLs (gdso-service.js:808-852)
\* ------------------------------------------------------------------------
\* the chunk size of getTireInfoBatch (gdso-service.js:918)
BatchLimit == 100

\* what callBatchApi returns: null, a payload that is not an array, or an
\* array of items; an item is an object, with a uii field or without
NullBatch == [kind |-> "null", items |-> <<>>]

\* baseUrl.replace(/\/tire\/?$/, rep)
ReplaceTireSuffix(baseUrl, rep) ==
    LET n == Len(baseUrl) IN
    IF n >= 6 /\ SubSeq(baseUrl, n - 5, n) = <<"/", "t", "i", "r", "e", "/">>
    THEN SubSeq(baseUrl, 1, n - 6) \o rep
    ELSE IF n >= 5 /\ SubSeq(baseUrl, n - 4, n) = <<"/", "t", "i", "r", "e">>
    THEN SubSeq(baseUrl, 1, n - 5) \o rep
    ELSE baseUrl

\* [...new Set(batchUrls)]
BatchUrls(apiUrl) ==
    LET baseUrl == IF Len(apiUrl) > 0 /\ apiUrl[Len(apiUrl)] = "/"
                   THEN SubSeq(apiUrl, 1, Len(apiUrl) - 1) ELSE apiUrl
    IN  Dedupe(<< ReplaceTireSuffix(baseUrl, <<"/", "t", "i", "r", "e", "s">>),
                  ReplaceTireSuffix(baseUrl, <<>>),
                  baseUrl \o <<"s">>,
                  baseUrl >>)

\* the bodies a 2xx answer to the batch POST may carry, for the identifiers
\* sent: 1 an array with one item per identifier, each with its uii; 2 the
\* same without uii; 3 an array with one item, without uii; 4 an object;
\* 5 null
BatchPayload(body, sgtins) ==
    IF body = 1
    THEN [kind |-> "array", items |-> [k \in 1..Len(sgtins) |-> [uii |-> sgtins[k], payload |-> k]]]
    ELSE IF body = 2
    THEN [kind |-> "array", items |-> [k \in 1..Len(sgtins) |-> [uii |-> <<>>, payload |-> k]]]
    ELSE IF body = 3
    THEN [kind |-> "array", items |-> << [uii |-> <<>>, payload |-> 1] >>]
    ELSE IF body = 4
    THEN [kind |-> "object", items |-> <<>>]
    ELSE NullBatch

ReturnBatch(S, data) ==
    [S EXCEPT !.frame.pc = "done", !.frame.outcome = "returned", !.frame.resultBatch = data]

\* fetch(url, {method: 'POST', body: JSON.stringify(sgtins)}) of batch URL
\* i, or `return null` after the last one
TryBatchUrl(S, i) ==
    IF i <= Len(S.frame.urls)
    THEN Send([S EXCEPT !.frame.pc = "post", !.frame.urlIdx = i],
              "post", S.frame.urls[i], S.frame.bearer)
    ELSE ReturnBatch(S, NullBatch)

\* response.ok: the parsed body is returned, whatever it is; a body that
\* does not parse rejects inside the try block, and the loop goes on as it
\* does after any other status or a rejected fetch
OnPostResponse(S, resp) ==
    IF ResponseOk(resp) /\ resp.json
    THEN ReturnBatch(S, BatchPayload(resp.body, S.frame.sgtins))
    ELSE TryBatchUrl(S, S.frame.urlIdx + 1)

\* after `await this.authenticate()`: build the batch URLs, try the first
StartBatchPosts(S) ==
    TryBatchUrl([S EXCEPT !.frame.urls = BatchUrls(S.frame.apiUrl)], 1)

\* ------------------------------------------------------------------------
\* authenticate (gdso-service.js:652-730)
\* ------------------------------------------------------------------------
Truthy(n) == n # 0 /\ n # NullNum /\ n # NaNNum /\ n # UndefinedNum
TokenSet(t) == t # NoToken /\ t # Undefined /\ t # ""

\* a variant, used to test the properties: no margin before the expiry
TokenReusableNoMargin(t, expiry, time) == TokenSet(t) /\ Truthy(expiry) /\ time < expiry

\* this.token && this.tokenExpiry && Date.now() < this.tokenExpiry - 60000
TokenReusable(t, expiry, time) == TokenSet(t) /\ Truthy(expiry) /\ time < expiry - 60000

AuthFailedDegrades(S, e) == ReturnData(S, NullData)

\* authenticate threw: callManufacturerApi and getTireInfo let it through
AuthFailed(S, e) == Raise(S, e)

AfterAuth(S, t) ==
    IF S.frame.entry = "authenticate"
    THEN [S EXCEPT !.frame.pc = "done", !.frame.outcome = "returned",
                   !.frame.authed = TRUE, !.frame.resultToken = t]
    ELSE IF S.frame.entry = "callBatchApi"
    THEN StartBatchPosts([S EXCEPT !.frame.authed = TRUE, !.frame.bearer = t])
    ELSE StartCandidates([S EXCEPT !.frame.authed = TRUE, !.frame.bearer = t])

\* a variant, used to test the properties: the credentials are not looked at
authenticateUnchecked(S) ==
    IF TokenReusable(S.token, S.tokenExpiry, S.now) THEN AfterAuth(S, S.token)
    ELSE Send([S EXCEPT !.frame.pc = "auth", !.frame.retrying = "token",
                        !.retry = WR_Start(DefaultOptions(TRUE))],
              "token", <<>>, NoToken)

authenticate(S) ==
    IF TokenReusable(S.token, S.tokenExpiry, S.now) THEN AfterAuth(S, S.token)
    ELSE IF ~cfg.credentials THEN AuthFailed(S, CredentialsMissingError)
    ELSE Send([S EXCEPT !.frame.pc = "auth", !.frame.retrying = "token",
                        !.retry = WR_Start(DefaultOptions(TRUE))],
              "token", <<>>, NoToken)

\* The bodies a 2xx token response may carry. jwt: the text starts with 'eyJ';
\* its payload segment decodes or not, and holds an exp claim (in seconds, as
\* `life` ms from now) or none. json: an object with the token fields and
\* expires_in (UndefinedNum when absent). Anything else is not JSON.
TokenBody(kind, tok, decodes, life, access, accessLc, idTok, expiresIn) ==
    [kind |-> kind, token |-> tok, decodes |-> decodes, life |-> life, AccessToken |-> access,
     access_token |-> accessLc, IdToken |-> idTok, expires_in |-> expiresIn]

TokenBodies ==
    << TokenBody("jwt", "eyJ1", TRUE, 61000, Undefined, Undefined, Undefined, UndefinedNum),
       TokenBody("jwt", "eyJ2", TRUE, 63000, Undefined, Undefined, Undefined, UndefinedNum),
       TokenBody("jwt", "eyJ3", FALSE, 0, Undefined, Undefined, Undefined, UndefinedNum),
       TokenBody("jwt", "eyJ4", TRUE, UndefinedNum, Undefined, Undefined, Undefined, UndefinedNum),
       TokenBody("json", "", TRUE, 0, "acc", Undefined, "idt", 62),
       TokenBody("json", "", TRUE, 0, Undefined, Undefined, "idt", UndefinedNum),
       TokenBody("json", "", TRUE, 0, Undefined, Undefined, Undefined, 62) >>

\* the code after withRetry returned the response (gdso-service.js:700-729)
StoreToken(S, resp) ==
    IF resp.body = 0 THEN AuthFailed(S, SyntaxError)
    ELSE
        LET b == TokenBodies[resp.body] IN
        IF b.kind = "jwt"
        THEN AfterAuth([S EXCEPT !.token = b.token,
                                 !.tokenExpiry =
                                     IF ~b.decodes THEN S.now + 3600000
                                     ELSE IF b.life = UndefinedNum THEN NaNNum
                                     ELSE ((S.now + b.life) \div 1000) * 1000],
                       b.token)
        ELSE
            LET t == IF TokenSet(b.AccessToken) THEN b.AccessToken
                     ELSE IF TokenSet(b.access_token) THEN b.access_token
                     ELSE b.IdToken IN
            IF ~TokenSet(t)
            THEN AuthFailed([S EXCEPT !.token = t], AuthenticationError(NullNum))
            ELSE AfterAuth([S EXCEPT !.token = t,
                                     !.tokenExpiry =
                                         S.now + (IF Truthy(b.expires_in) THEN b.expires_in
                                                  ELSE 3600) * 1000],
                           t)

\* the operation under retry: fetch, then throw AuthenticationError(text,
\* res.status) unless res.ok
AuthOpError(resp) ==
    IF resp.kind = "timeout" THEN FetchTimeout
    ELSE IF resp.kind = "failed" THEN FetchFailed
    ELSE AuthenticationError(resp.status)

\* The answer to a request sent under withRetry. On success withRetry
\* returns, its frame is gone and the caller goes on; on failure it sleeps
\* before the next attempt or throws.
OnTokenResponse(S, resp) ==
    IF ResponseOk(resp)
    THEN LET r == WR_Success(S.retry, "response") IN
         IF r.pc = "returned" THEN StoreToken([S EXCEPT !.retry = IdleRetry], resp)
         ELSE Send([S EXCEPT !.retry = r], "token", <<>>, NoToken)
    ELSE LET r == WR_Failure(S.retry, AuthOpError(resp)) IN
         IF r.pc = "sleeping" THEN [S EXCEPT !.retry = r, !.frame.pc = "authSleep"]
         ELSE AuthFailed([S EXCEPT !.retry = r], r.error)

\* ------------------------------------------------------------------------
\* resolveOns (gdso-service.js:559-640)
\* ------------------------------------------------------------------------
OnsCacheMaxSize == 500

\* options.cacheTtlMs || 3600000
CacheTtl(option) == IF Truthy(option) THEN option ELSE 3600000

\* `const { parsed: _, ...cacheData } = result`
CacheData(ons) ==
    [gtin13 |-> ons.gtin13, fqdn |-> ons.fqdn, manufacturer |-> ons.manufacturer,
     apiUrl |-> ons.apiUrl, services |-> ons.services]

\* `{ ...cached, parsed }`
FromCache(cached, parsed) ==
    [parsed |-> parsed, gtin13 |-> cached.gtin13, fqdn |-> cached.fqdn,
     manufacturer |-> cached.manufacturer, apiUrl |-> cached.apiUrl,
     services |-> cached.services]

\* resolveOns returned `ons`: it is the result of the call, or getTireInfo
\* goes on to callManufacturerApi, which first awaits authenticate
AfterResolve(S, ons) ==
    IF S.frame.entry = "resolveOns"
    THEN [S EXCEPT !.frame.pc = "done", !.frame.outcome = "returned",
                   !.frame.resolved = TRUE, !.frame.resultOns = ons]
    ELSE authenticate([S EXCEPT !.frame.resolved = TRUE, !.frame.ons = ons,
                                !.frame.apiUrl = ons.apiUrl,
                                !.frame.manufacturer = ons.manufacturer])

CacheKeySerial(parsed) == sgtinToGtin13(parsed) \o parsed.serialNumber

\* the key of the ONS cache
CacheKey(parsed) == sgtinToGtin13(parsed)

resolveOns(S) ==
    LET parsed == parseSgtin(S.frame.sgtin) IN
    IF ~parsed.ok THEN Raise(S, SgtinParseError)
    ELSE
        LET gtin13 == sgtinToGtin13(parsed)
            got == LRUGet(S.onsCache, CacheKey(parsed), S.now)
            S1 == IF cfg.useCache THEN [S EXCEPT !.onsCache = got.cache] ELSE S
            fqdn == gtinToFqdn(gtin13)
        IN  IF cfg.useCache /\ got.hit
            THEN AfterResolve(S1, FromCache(got.cache[Len(got.cache)].value, parsed))
            ELSE Send([S1 EXCEPT !.frame.pc = "dns", !.frame.retrying = "dns",
                                 !.frame.ons = [NoOns EXCEPT !.parsed = parsed,
                                                    !.gtin13 = gtin13, !.fqdn = fqdn,
                                                    !.manufacturer =
                                                        getManufacturerConfig(parsed.companyPrefix)],
                                 !.retry = WR_Start(DefaultOptions(TRUE))],
                      "dns", fqdn, NoToken)

\* NAPTR records as dns.google writes them in the data field
RecBare1 == <<"1", "0", "0", " ", "1", "0", " ", "u", " ", "G", "e", "t", "T", "i", "r", "e", "B", "y", "S", "g", "t", "i", "n", " ", "!", "^", ".", "*", "$", "!", "h", "t", "t", "p", ":", "/", "/", "m", "1", "/", "v", "1", "!", " ", ".">>
RecBare2 == <<"1", "0", "0", " ", "2", "0", " ", "u", " ", "u", "r", "n", ":", "g", "d", "s", "o", ":", "G", "e", "t", "T", "i", "r", "e", "B", "y", "S", "g", "t", "i", "n", " ", "!", "^", ".", "*", "$", "!", "h", "t", "t", "p", "s", ":", "/", "/", "m", "2", "/", "!", " ", ".">>
RecOther == <<"1", "0", "0", " ", "1", "0", " ", "u", " ", "G", "e", "t", "I", "n", "f", "o", " ", "!", "^", ".", "*", "$", "!", "h", "t", "t", "p", ":", "/", "/", "x", "!", " ", ".">>
RecQuoted == <<"1", "0", "0", " ", "1", "0", " ", "\"", "u", "\"", " ", "\"", "G", "e", "t", "T", "i", "r", "e", "B", "y", "S", "g", "t", "i", "n", "\"", " ", "\"", "!", "^", ".", "*", "$", "!", "h", "t", "t", "p", ":", "/", "/", "m", "1", "/", "v", "1", "!", "\"", " ", ".">>

\* the JSON envelopes a 2xx DNS response may carry; the second one has a text
\* that is no record, a record whose regexp field holds an ftp URL, and the
\* same record twice
DnsEnvelopes ==
    << [Status |-> 0, Answer |-> <<RecBare1>>],
       [Status |-> 0,
        Answer |-> <<<<"n", "o", "t", " ", "a", " ", "N", "A", "P", "T", "R", " ", "r", "e", "c", "o", "r", "d">>,
                     RecOther,
                     <<"1", "0", "0", " ", "1", "0", " ", "u", " ", "G", "e", "t", "T", "i", "r", "e", "B", "y", "S", "g", "t", "i", "n", " ", "!", "^", ".", "*", "$", "!", "f", "t", "p", ":", "/", "/", "m", "3", "/", "v", "1", "!", " ", ".">>,
                     <<"1", "0", "0", " ", "1", "0", " ", "u", " ", "G", "e", "t", "T", "i", "r", "e", "B", "y", "S", "g", "t", "i", "n", " ", "!", "^", ".", "*", "$", "!", "h", "t", "t", "p", "s", ":", "/", "/", "a", "p", "i", ".", "e", "x", "a", "m", "p", "l", "e", ".", "c", "o", "m", "/", "v", "1", "!", " ", ".">>,
                     RecBare2, RecBare2, RecBare1>>],
       [Status |-> 0, Answer |-> <<RecQuoted, RecOther>>],
       [Status |-> 0, Answer |-> <<>>],
       [Status |-> 3, Answer |-> <<>>],
       [Status |-> 0, Answer |-> <<RecOther>>] >>

DnsOpErrorNoStatus(resp) ==
    IF resp.kind = "timeout" THEN FetchTimeout
    ELSE IF resp.kind = "failed" THEN FetchFailed
    ELSE IF ~ResponseOk(resp) THEN DnsResolutionError(NullNum)
    ELSE SyntaxError

\* the operation under retry: fetch, throw DnsResolutionError(fqdn, reason,
\* response.status) unless response.ok, else response.json()
DnsOpError(resp) ==
    IF resp.kind = "timeout" THEN FetchTimeout
    ELSE IF resp.kind = "failed" THEN FetchFailed
    ELSE IF ~ResponseOk(resp) THEN DnsResolutionError(resp.status)
    ELSE SyntaxError

Remember(S, ons) ==
    [S EXCEPT !.stored = {r \in S.stored : r.gtin13 # ons.gtin13}
                         \cup {[gtin13 |-> ons.gtin13, fqdn |-> ons.fqdn,
                                apiUrl |-> ons.apiUrl, services |-> ons.services,
                                sgtin |-> S.frame.sgtin, at |-> S.now]}]

\* a variant, used to test the properties: the services are cached before
\* the tire service is looked for among them
FinishResolveStoresFirst(S, data) ==
    IF data.Status # 0 \/ Len(data.Answer) = 0 THEN Raise(S, NaptrNotFoundError)
    ELSE
        LET services == ParseAnswers(data.Answer)
            i == FindApiService(services)
            result == [S.frame.ons EXCEPT !.apiUrl = IF i = 0 THEN <<>> ELSE services[i].url,
                                          !.services = services]
            S1 == IF cfg.useCache
                  THEN [S EXCEPT !.onsCache =
                           LRUSet(S.onsCache, CacheKey(result.parsed), CacheData(result),
                                  S.now, cfg.cacheTtlMs, OnsCacheMaxSize)]
                  ELSE S
        IN  IF i = 0 THEN Raise(S1, NaptrNotFoundError)
            ELSE AfterResolve(Remember(S1, result), result)

\* a variant, used to test the properties: the resolution is added to the
\* cache without a look at what the cache holds
FinishResolveAppends(S, data) ==
    IF data.Status # 0 \/ Len(data.Answer) = 0 THEN Raise(S, NaptrNotFoundError)
    ELSE
        LET services == ParseAnswers(data.Answer)
            i == FindApiService(services)
        IN  IF i = 0 THEN Raise(S, NaptrNotFoundError)
            ELSE
                LET result == [S.frame.ons EXCEPT !.apiUrl = services[i].url,
                                                  !.services = services]
                    S1 == IF cfg.useCache
                          THEN [S EXCEPT !.onsCache =
                                   Append(S.onsCache,
                                          [key |-> CacheKey(result.parsed), value |-> CacheData(result),
                                           expiry |-> S.now + cfg.cacheTtlMs])]
                          ELSE S
                IN  AfterResolve(Remember(S1, result), result)

\* the code after withRetry returned the envelope (gdso-service.js:603-639)
FinishResolve(S, data) ==
    IF data.Status # 0 \/ Len(data.Answer) = 0 THEN Raise(S, NaptrNotFoundError)
    ELSE
        LET services == ParseAnswers(data.Answer)
            i == FindApiService(services)
        IN  IF i = 0 THEN Raise(S, NaptrNotFoundError)
            ELSE
                LET result == [S.frame.ons EXCEPT !.apiUrl = services[i].url,
                                                  !.services = services]
                    S1 == IF cfg.useCache
                          THEN [S EXCEPT !.onsCache =
                                   LRUSet(S.onsCache, CacheKey(result.parsed), CacheData(result),
                                          S.now, cfg.cacheTtlMs, OnsCacheMaxSize)]
                          ELSE S
                IN  AfterResolve(Remember(S1, result), result)

\* a variant, used to test the properties: the envelope is examined inside
\* the operation under retry
OnDnsResponseChecksInside(S, resp) ==
    IF ResponseOk(resp) /\ resp.json
    THEN IF DnsEnvelopes[resp.body].Status # 0 \/ Len(DnsEnvelopes[resp.body].Answer) = 0
              \/ FindApiService(ParseAnswers(DnsEnvelopes[resp.body].Answer)) = 0
         THEN LET r == WR_Failure(S.retry, NaptrNotFoundError) IN
              IF r.pc = "sleeping" THEN [S EXCEPT !.retry = r, !.frame.pc = "dnsSleep"]
              ELSE Raise([S EXCEPT !.retry = r], r.error)
         ELSE FinishResolve([S EXCEPT !.retry = IdleRetry], DnsEnvelopes[resp.body])
    ELSE LET r == WR_Failure(S.retry, DnsOpError(resp)) IN
         IF r.pc = "sleeping" THEN [S EXCEPT !.retry = r, !.frame.pc = "dnsSleep"]
         ELSE Raise([S EXCEPT !.retry = r], r.error)

OnDnsResponse(S, resp) ==
    IF ResponseOk(resp) /\ resp.json
    THEN LET r == WR_Success(S.retry, "json") IN
         IF r.pc = "returned"
         THEN FinishResolve([S EXCEPT !.retry = IdleRetry], DnsEnvelopes[resp.body])
         ELSE Send([S EXCEPT !.retry = r], "dns", S.frame.ons.fqdn, NoToken)
    ELSE LET r == WR_Failure(S.retry, DnsOpError(resp)) IN
         IF r.pc = "sleeping" THEN [S EXCEPT !.retry = r, !.frame.pc = "dnsSleep"]
         ELSE Raise([S EXCEPT !.retry = r], r.error)

\* ------------------------------------------------------------------------
\* The service: calls, responses, sleeps, time
\* ------------------------------------------------------------------------
TickMs == 1000

Sgtin(prefix, itemRef, serial) == UrnPrefix \o prefix \o <<".">> \o itemRef \o <<".">> \o serial

\* Two serials of one Michelin product, the same GTIN-13 under another split
\* of prefix and item reference (an unknown prefix), a Continental product,
\* and an identifier without its serial segment
SgtinA1 == Sgtin(<<"0", "8", "6", "6", "9", "9">>, <<"0", "9", "8", "8", "2", "2", "9">>, <<"1">>)
SgtinA2 == Sgtin(<<"0", "8", "6", "6", "9", "9">>, <<"0", "9", "8", "8", "2", "2", "9">>, <<"2">>)
SgtinA3 == Sgtin(<<"0", "8", "6", "6", "9", "9", "9">>, <<"0", "8", "8", "2", "2", "9">>, <<"1">>)
SgtinB1 == Sgtin(<<"0", "5", "1", "3", "2", "4">>, <<"0", "1", "2", "3", "4", "5", "6">>, <<"7">>)
SgtinBad == UrnPrefix \o <<"0", "8", "6", "6", "9", "9", ".", "0", "9", "8", "8", "2", "2", "9">>
SgtinSet == {SgtinA1, SgtinA2, SgtinA3, SgtinB1, SgtinBad}
SgtinFew == {SgtinA1, SgtinA2, SgtinA3, SgtinBad}

\* what callManufacturerApi may be handed directly: a table profile and a
\* profile with a transformResponse hook
ProfileSet ==
    {getManufacturerConfig(<<"0", "8", "6", "6", "9", "9">>),
     Profile("Hooked", <<>>, PatternRoot, FALSE, <<>>, FALSE, TRUE)}

Statuses(kindSet) == {Resp("response", s, FALSE, 0) : s \in kindSet}
Rejections == {Resp("timeout", 0, FALSE, 0), Resp("failed", 0, FALSE, 0)}

DnsResponses ==
    Rejections \cup Statuses({404, 429, 500, 503}) \cup {Resp("response", 200, FALSE, 0)}
    \cup {Resp("response", 200, TRUE, i) : i \in 1..Len(DnsEnvelopes)}

DnsResponsesFew ==
    {Resp("timeout", 0, FALSE, 0)} \cup Statuses({404, 429, 503}) \cup {Resp("response", 200, TRUE, 1), Resp("response", 200, TRUE, 4)}

TokenResponses ==
    Rejections \cup Statuses({401, 429, 500})
    \cup {Resp("response", 200, FALSE, i) : i \in 0..Len(TokenBodies)}

TokenResponsesFew ==
    {Resp("failed", 0, FALSE, 0)} \cup Statuses({401, 429, 500})
    \cup {Resp("response", 200, FALSE, i) : i \in {1, 5, 7}}

GetResponses ==
    Rejections \cup Statuses({404, 500}) \cup {Resp("response", 200, FALSE, 0)}
    \cup {Resp("response", 200, TRUE, 1), Resp("response", 201, TRUE, 2)}

Options(credentialsSet, useCacheSet, cacheTtlSet) ==
    [credentials : credentialsSet, useCache : useCacheSet,
     cacheTtlMs : {CacheTtl(o) : o \in cacheTtlSet}]

\* no LRUCache under study, no codec function applied
DevIdle ==
    /\ lru = [maxSize |-> 100, ttlMs |-> 3600000, cache |-> <<>>, recent |-> <<>>,
              gone |-> {}, op |-> "none", key |-> "", value |-> UndefinedNum,
              ttl |-> UndefinedNum, result |-> UndefinedNum]
    /\ arg = [type |-> "undefined", text |-> <<>>]
    /\ out = [fn |-> "none", error |-> "none", parsed |-> NoParse, digit |-> UndefinedNum, text |-> <<>>, urls |-> <<>>]

\* the service after construction
Constructed ==
    /\ now = 0
    /\ onsCache = <<>>
    /\ token = NoToken
    /\ tokenExpiry = NullNum
    /\ frame = IdleFrame
    /\ net = <<>>
    /\ lastResp = NoResp
    /\ stored = {}

ServiceIdle ==
    /\ cfg \in Options({TRUE}, {TRUE}, {UndefinedNum})
    /\ Constructed
    /\ DevIdle

Init ==
    /\ retry = IdleRetry
    /\ clsErr = NoError
    /\ clsOut = "unset"
    /\ cfg \in Options(BOOLEAN, BOOLEAN, {2000})
    /\ Constructed
    /\ DevIdle

CanCall == frame.pc \in {"idle", "done"}

NewFrame(entry, sgtin, apiUrl, manufacturer) ==
    [Cur EXCEPT !.frame = [IdleFrame EXCEPT !.entry = entry, !.sgtin = sgtin,
                                            !.apiUrl = apiUrl,
                                            !.manufacturer = manufacturer,
                                            !.startNow = now, !.startStored = stored],
                !.net = <<>>,
                !.retry = IdleRetry]

Called ==
    /\ lastResp' = NoResp
    /\ UNCHANGED <<cfg, ClsVars, DevVars>>

CallGetTireInfo(sgtins) ==
    /\ CanCall
    /\ \E s \in sgtins : Apply(resolveOns(NewFrame("getTireInfo", s, <<>>, NoManufacturer)))
    /\ Called

CallResolveOns(sgtins) ==
    /\ CanCall
    /\ \E s \in sgtins : Apply(resolveOns(NewFrame("resolveOns", s, <<>>, NoManufacturer)))
    /\ Called

CallAuthenticate ==
    /\ CanCall
    /\ Apply(authenticate(NewFrame("authenticate", <<>>, <<>>, NoManufacturer)))
    /\ Called

CallManufacturerApi ==
    /\ CanCall
    /\ \E m \in ProfileSet :
          Apply(authenticate(NewFrame("callManufacturerApi", SgtinA1,
                                      <<"h", "t", "t", "p", ":", "/", "/", "m", "1", "/", "v", "1">>, m)))
    /\ Called

DnsResponds(responses) ==
    /\ frame.pc = "dns"
    /\ \E resp \in responses : Apply(OnDnsResponse(Cur, resp)) /\ lastResp' = resp
    /\ UNCHANGED <<cfg, ClsVars, DevVars>>

TokenResponds(responses) ==
    /\ frame.pc = "auth"
    /\ \E resp \in responses : Apply(OnTokenResponse(Cur, resp)) /\ lastResp' = resp
    /\ UNCHANGED <<cfg, ClsVars, DevVars>>

GetResponds ==
    /\ frame.pc = "get"
    /\ \E resp \in GetResponses :
       \E h \in (IF frame.manufacturer.transformResponse /\ resp.json THEN BOOLEAN ELSE {FALSE}) :
          /\ Apply(OnGetResponse(Cur, resp, h))
          /\ lastResp' = [resp EXCEPT !.hookThrows = h]
    /\ UNCHANGED <<cfg, ClsVars, DevVars>>

\* sleep(currentDelay) is over: the loop of withRetry goes round and the
\* operation sends its request again
SleepDone(pc, kind, target) ==
    LET r == WR_Wake(retry)
        S == [Cur EXCEPT !.now = now + retry.currentDelay, !.retry = r]
    IN  /\ now + retry.currentDelay <= MaxElapsed
        /\ IF r.pc = "calling"
           THEN Apply(Send([S EXCEPT !.frame.pc = pc], kind, target, NoToken))
           ELSE Apply(Raise(S, r.error))
        /\ UNCHANGED <<cfg, lastResp, ClsVars, DevVars>>

DnsSleepDone ==
    /\ frame.pc = "dnsSleep"
    /\ SleepDone("dns", "dns", frame.ons.fqdn)

AuthSleepDone ==
    /\ frame.pc = "authSleep"
    /\ SleepDone("auth", "token", <<>>)

\* time passes while no call is running (inside a call it passes in the
\* sleeps of withRetry)
Tick ==
    /\ frame.pc \in {"idle", "done"}
    /\ now + TickMs <= MaxElapsed
    /\ now' = now + TickMs
    /\ UNCHANGED <<cfg, onsCache, token, tokenExpiry, frame, net, lastResp, stored,
                   retry, ClsVars, DevVars>>

\* time passes at any moment but a sleep of withRetry
TickAnywhere ==
    /\ frame.pc \notin {"dnsSleep", "authSleep"}
    /\ now + TickMs <= MaxElapsed
    /\ now' = now + TickMs
    /\ UNCHANGED <<cfg, onsCache, token, tokenExpiry, frame, net, lastResp, stored,
                   retry, ClsVars, DevVars>>

\* clearCache()
ClearCache ==
    /\ frame.pc \in {"idle", "done"}
    /\ onsCache # <<>>
    /\ onsCache' = <<>>
    /\ stored' = {}
    /\ UNCHANGED <<cfg, now, token, tokenExpiry, frame, net, lastResp, retry, ClsVars, DevVars>>

Next ==
    \/ CallGetTireInfo(SgtinFew)
    \/ CallResolveOns(SgtinFew)
    \/ CallAuthenticate
    \/ CallManufacturerApi
    \/ DnsResponds(DnsResponsesFew)
    \/ TokenResponds(TokenResponsesFew)
    \/ GetResponds
    \/ DnsSleepDone
    \/ AuthSleepDone
    \/ Tick
    \/ ClearCache

Spec == Init /\ [][Next]_vars

\* resolveOns alone, under every DNS answer, any cache setting, time passing
\* at any moment
InitResolve ==
    /\ retry = IdleRetry
    /\ clsErr = NoError
    /\ clsOut = "unset"
    /\ cfg \in Options({TRUE}, BOOLEAN, {UndefinedNum, 2000})
    /\ Constructed
    /\ DevIdle

NextResolve ==
    \/ CallResolveOns(SgtinSet)
    \/ DnsResponds(DnsResponses)
    \/ DnsSleepDone
    \/ TickAnywhere
    \/ ClearCache

SpecResolve == InitResolve /\ [][NextResolve]_vars

\* authenticate alone, under every token response, with time passing at any
\* moment
NextAuth ==
    \/ CallAuthenticate
    \/ TokenResponds(TokenResponses)
    \/ AuthSleepDone
    \/ TickAnywhere

SpecAuth == Init /\ [][NextAuth]_vars

\* ------------------------------------------------------------------------
\* The retry executor on its own: any policy, any operation behaviour
\* ------------------------------------------------------------------------
OptionSet ==
    [maxAttempts : {UndefinedNum} \cup 1..MaxAttemptsBound, delayMs : {UndefinedNum, 10},
     backoffMultiplier : {UndefinedNum, 1, 3},
     shouldRetry : {Undefined, "always", "notNoRetry"}, onRetry : BOOLEAN]

RetryInit == retry = IdleRetry /\ clsErr = NoError /\ clsOut = "unset" /\ ServiceIdle

RetryCall ==
    /\ retry.pc = "idle"
    /\ \E o \in OptionSet : retry' = WR_Start(o)
    /\ UNCHANGED <<ClsVars, DevVars, ServiceVars>>

RetryOpSucceeds ==
    /\ retry.pc = "calling"
    /\ \E v \in {"success", "other"} : retry' = WR_Success(retry, v)
    /\ UNCHANGED <<ClsVars, DevVars, ServiceVars>>

RetryOpFails ==
    /\ retry.pc = "calling"
    /\ \E e \in {PlainError, NoRetryError, TimeoutError, SgtinParseError,
                 DnsResolutionError(503), AuthenticationError(401)} : retry' = WR_Failure(retry, e)
    /\ UNCHANGED <<ClsVars, DevVars, ServiceVars>>

RetrySleepDone ==
    /\ retry.pc = "sleeping"
    /\ retry' = WR_Wake(retry)
    /\ UNCHANGED <<ClsVars, DevVars, ServiceVars>>

RetryNext == RetryCall \/ RetryOpSucceeds \/ RetryOpFails \/ RetrySleepDone

SpecRetry == RetryInit /\ [][RetryNext]_vars

\* ------------------------------------------------------------------------
\* The default classifier on its own: every error shape
\* ------------------------------------------------------------------------

ClsInit ==
    /\ retry = IdleRetry
    /\ ServiceIdle
    /\ clsErr \in {Err(n, c, s) :
                       n \in {"Error", "TypeError", "TimeoutError", "GdsoError",
                              "AuthenticationError"},
                       c \in {Undefined, "SGTIN_PARSE_ERROR", "CREDENTIALS_MISSING",
                              "ECONNRESET", "ENOTFOUND", "ETIMEDOUT", "AUTH_ERROR",
                              "TIMEOUT_ERROR"},
                       s \in {UndefinedNum, NullNum, 200, 400, 401, 404, 428, 429, 430,
                              499, 500, 501, 503}}
    /\ clsOut = "unset"

Classify ==
    /\ clsOut = "unset"
    /\ clsOut' = IF defaultShouldRetry(clsErr) THEN "true" ELSE "false"
    /\ UNCHANGED <<clsErr, retry, ServiceVars, DevVars>>

SpecClassify == ClsInit /\ [][Classify]_vars

\* ------------------------------------------------------------------------
\* An LRUCache on its own: any sequence of set, get, has, delete and clear,
\* with time passing in between. Beside the instance, `lru` holds the last
\* operation (op, its arguments, its result), the entries whose key that
\* operation removed (gone), and the use history (recent): the keys in the
\* cache, the one set or found by get/has longest ago first.
\* ------------------------------------------------------------------------
\* new LRUCache({ maxSize, ttlMs }) (manufacturers.js:378-383)
NewLRUCache(maxSize, ttlMs) ==
    [maxSize |-> IF Truthy(maxSize) THEN maxSize ELSE 100,
     ttlMs |-> IF Truthy(ttlMs) THEN ttlMs ELSE 3600000,
     cache |-> <<>>, recent |-> <<>>, gone |-> {}, op |-> "none", key |-> "",
     value |-> UndefinedNum, ttl |-> UndefinedNum, result |-> UndefinedNum]

InitLRU ==
    /\ retry = IdleRetry
    /\ clsErr = NoError
    /\ clsOut = "unset"
    /\ cfg \in Options({TRUE}, {TRUE}, {UndefinedNum})
    /\ Constructed
    /\ lru \in {NewLRUCache(m, 1000) : m \in 1..MaxCacheSize}
    /\ arg = [type |-> "undefined", text |-> <<>>]
    /\ out = [fn |-> "none", error |-> "none", parsed |-> NoParse, digit |-> UndefinedNum, text |-> <<>>, urls |-> <<>>]

\* `lru` after an operation that left the Map as `c` and used the keys in
\* `used`: a used key becomes the most recent one, and only keys still in the
\* cache are remembered
LruAfter(op, key, value, ttl, result, used, c) ==
    LET moved == SelectSeq(lru.recent, LAMBDA k : k \notin used) \o
                 (IF used = {} THEN <<>> ELSE <<key>>)
    IN  [lru EXCEPT !.cache = c,
                    !.recent = SelectSeq(moved, LAMBDA k : LRUIndex(c, k) # 0),
                    !.gone = {lru.cache[i] : i \in {j \in 1..Len(lru.cache) :
                                                       LRUIndex(c, lru.cache[j].key) = 0}},
                    !.op = op, !.key = key, !.value = value, !.ttl = ttl,
                    !.result = result]

\* set(key, value) and set(key, value, ttlMs)
LruSet ==
    /\ \E k \in CacheKeys, v \in {1, 2}, ttl \in {UndefinedNum, 2000} :
          lru' = LruAfter("set", k, v, ttl, UndefinedNum, {k},
                          LRUSet(lru.cache, k, v, now,
                                 IF ttl = UndefinedNum THEN lru.ttlMs ELSE ttl, lru.maxSize))
    /\ UNCHANGED <<retry, ClsVars, ServiceVars, arg, out>>

\* a variant, used to test the properties: has(key) looks the key up in the
\* Map and goes through get no more
LruReadHasPeeks ==
    /\ \E k \in CacheKeys, op \in {"get", "has"} :
          LET got == LRUGet(lru.cache, k, now)
              value == IF got.hit THEN got.cache[Len(got.cache)].value ELSE UndefinedNum
          IN  lru' = IF op = "get"
                     THEN LruAfter(op, k, UndefinedNum, UndefinedNum, value,
                                   IF got.hit THEN {k} ELSE {}, got.cache)
                     ELSE LruAfter(op, k, UndefinedNum, UndefinedNum,
                                   IF got.hit THEN 1 ELSE 0, {}, lru.cache)
    /\ UNCHANGED <<retry, ClsVars, ServiceVars, arg, out>>

\* get(key), and has(key), which is get(key) !== undefined: the result is the
\* value (UndefinedNum for undefined), for has 1 or 0
LruRead ==
    /\ \E k \in CacheKeys, op \in {"get", "has"} :
          LET got == LRUGet(lru.cache, k, now)
              value == IF got.hit THEN got.cache[Len(got.cache)].value ELSE UndefinedNum
          IN  lru' = LruAfter(op, k, UndefinedNum, UndefinedNum,
                              IF op = "get" THEN value
                              ELSE IF value # UndefinedNum THEN 1 ELSE 0,
                              IF got.hit THEN {k} ELSE {}, got.cache)
    /\ UNCHANGED <<retry, ClsVars, ServiceVars, arg, out>>

\* delete(key): true (1) when the key was there
LruDelete ==
    /\ \E k \in CacheKeys :
          lru' = LruAfter("delete", k, UndefinedNum, UndefinedNum,
                          IF LRUIndex(lru.cache, k) # 0 THEN 1 ELSE 0, {},
                          LRURemove(lru.cache, k))
    /\ UNCHANGED <<retry, ClsVars, ServiceVars, arg, out>>

\* clear()
LruClear ==
    /\ lru' = LruAfter("clear", "", UndefinedNum, UndefinedNum, UndefinedNum, {}, <<>>)
    /\ UNCHANGED <<retry, ClsVars, ServiceVars, arg, out>>

NextLRU == LruSet \/ LruRead \/ LruDelete \/ LruClear \/ Tick

SpecLRU == InitLRU /\ [][NextLRU]_vars

\* the size getter: this.cache.size
LruSize ==
    /\ lru' = LruAfter("size", "", UndefinedNum, UndefinedNum, Len(lru.cache), {}, lru.cache)
    /\ UNCHANGED <<retry, ClsVars, ServiceVars, arg, out>>

\* stats(): the entries are counted, the expired ones apart; the result is
\* the record { size, maxSize, expired, ttlMs }
LruStats ==
    /\ lru' = LruAfter("stats", "", UndefinedNum, UndefinedNum,
                       [size |-> Len(lru.cache), maxSize |-> lru.maxSize,
                        expired |-> Len(SelectSeq(lru.cache, LAMBDA e : now > e.expiry)),
                        ttlMs |-> lru.ttlMs],
                       {}, lru.cache)
    /\ UNCHANGED <<retry, ClsVars, ServiceVars, arg, out>>

\* the LRUCache with all its members
NextLRUQueries == NextLRU \/ LruSize \/ LruStats

SpecLRUQueries == InitLRU /\ [][NextLRUQueries]_vars

\* ------------------------------------------------------------------------
\* The SGTIN codec on its own: parseSgtin and calculateCheckDigit applied to
\* one argument. `arg` is the JavaScript value passed (its type, and its
\* characters when it is a string); `out` is what the call did: the function,
\* the name of the error thrown ("none" when it returned), the value returned.
\* ------------------------------------------------------------------------
\* The arguments: the identifiers and digit strings of sgtin.test.js; every
\* text of up to MaxBodyLen characters among two digits, the dot and a letter
\* after the prefix, after a wrong prefix and after a prefix that comes
\* second; every digit string of up to MaxDigits digits; and values that are
\* not strings: undefined, null, a number, an object, and an object that has
\* no toString and no valueOf (Object.create(null)).
CodecInputs ==
    LET Text(chars, n) == UNION {[1..k -> chars] : k \in 0..n}
        Str(t) == [type |-> "string", text |-> t]
    IN  {Str(p \o b) : p \in {UrnPrefix, <<"s", "g", "t", "i", "n", ":">>, <<"x">> \o UrnPrefix},
                       b \in Text({"0", "7", ".", "a"}, MaxBodyLen)}
        \cup {Str(d) : d \in Text({DigitChars[i] : i \in 1..10}, MaxDigits)}
        \cup {Str(<<"u", "r", "n", ":", "e", "p", "c", ":", "i", "d", ":", "s", "g", "t", "i", "n", ":", "0", "8", "6", "6", "9", "9", ".", "0", "9", "8", "8", "2", "2", "9", ".", "7", "2", "9", "1", "6", "5", "0", "2", "3", "8", "9">>),
              Str(<<"u", "r", "n", ":", "e", "p", "c", ":", "i", "d", ":", "s", "g", "t", "i", "n", ":", "5", "4", "5", "2", "0", "0", "0", "7", ".", "0", "8", "8", "8", "5", "5", ".", "1", "2", "3", "4", "5", "6", "7", "8", "9">>),
              Str(<<"u", "r", "n", ":", "e", "p", "c", ":", "i", "d", ":", "s", "g", "t", "i", "n", ":", "0", "8", "6", "6", "9", "9", ".", "0", "9", "8", "8", "2", "2", "9">>),
              Str(<<"u", "r", "n", ":", "e", "p", "c", ":", "i", "d", ":", "s", "g", "t", "i", "n", ":", "a", "b", "c", ".", "d", "e", "f", ".", "g", "h", "i">>),
              Str(<<"i", "n", "v", "a", "l", "i", "d">>),
              Str(<<"0", "0", "8", "6", "6", "9", "9", "9", "8", "8", "2", "2", "9">>), Str(<<"6", "2", "9", "1", "0", "4", "1", "5", "0", "0", "2", "1">>), Str(<<"0", "0", "1", "2", "3", "4", "5", "6", "7", "8", "9", "0">>),
              Str(<<"u", "r", "n", ":", "e", "p", "c", ":", "i", "d", ":", "s", "g", "t", "i", "n", ":", "0", "8", "6", "6", "9", "9", ".", "0", "7", "6", "2", "5", "7", "5", ".", "6", "3", "6", "4", "7", "5", "6", "3", "7", "9", "0">>),
              Str(<<"0", "8", "6", "6", "9", "9", "9", "8", "8", "2", "2", "9", "0">>), Str(<<"1", "2", "3", "4", "5", "6", "7", "8", "9", "0", "1", "2", "3">>)}
        \cup {Str(Sgtin(<<"0", "8", "6", "6", "9", "9">>, <<DigitChars[i]>> \o <<"9", "8", "8", "2", "2", "9">>, <<"1">>)) : i \in 1..10}
        \cup {[type |-> t, text |-> <<>>] :
                 t \in {"undefined", "null", "number", "object", "bare object"}}

InitCodec ==
    /\ retry = IdleRetry
    /\ clsErr = NoError
    /\ clsOut = "unset"
    /\ cfg \in Options({TRUE}, {TRUE}, {UndefinedNum})
    /\ Constructed
    /\ lru = NewLRUCache(UndefinedNum, UndefinedNum)
    /\ arg \in CodecInputs
    /\ out = [fn |-> "none", error |-> "none", parsed |-> NoParse, digit |-> UndefinedNum, text |-> <<>>, urls |-> <<>>]

\* service.parseSgtin(arg). `!sgtinUrn || typeof sgtinUrn !== 'string'` throws
\* new SgtinParseError(String(sgtinUrn), ...), and String() of an object that
\* cannot be converted to a primitive throws a TypeError before the error is
\* built; a string goes to the regular expression.
ApplyParseSgtin ==
    /\ out' = IF arg.type = "bare object"
              THEN [fn |-> "parseSgtin", error |-> "TypeError",
                    parsed |-> NoParse, digit |-> UndefinedNum, text |-> <<>>, urls |-> <<>>]
              ELSE IF arg.type # "string" \/ ~parseSgtin(arg.text).ok
              THEN [fn |-> "parseSgtin", error |-> "SgtinParseError",
                    parsed |-> NoParse, digit |-> UndefinedNum, text |-> <<>>, urls |-> <<>>]
              ELSE [fn |-> "parseSgtin", error |-> "none",
                    parsed |-> parseSgtin(arg.text), digit |-> UndefinedNum, text |-> <<>>, urls |-> <<>>]
    /\ UNCHANGED <<retry, ClsVars, ServiceVars, lru, arg>>

\* service.calculateCheckDigit(arg) for a string of digits
ApplyCheckDigit ==
    /\ arg.type = "string"
    /\ \A i \in 1..Len(arg.text) : \E k \in 1..10 : DigitChars[k] = arg.text[i]
    /\ out' = [fn |-> "calculateCheckDigit", error |-> "none", parsed |-> NoParse,
               digit |-> calculateCheckDigit(arg.text), text |-> <<>>, urls |-> <<>>]
    /\ UNCHANGED <<retry, ClsVars, ServiceVars, lru, arg>>

\* service.sgtinToGtin13(service.parseSgtin(arg)) for an argument that parses
ApplySgtinToGtin13 ==
    /\ arg.type = "string"
    /\ parseSgtin(arg.text).ok
    /\ out' = [fn |-> "sgtinToGtin13", error |-> "none", parsed |-> parseSgtin(arg.text),
               digit |-> UndefinedNum, text |-> sgtinToGtin13(parseSgtin(arg.text)), urls |-> <<>>]
    /\ UNCHANGED <<retry, ClsVars, ServiceVars, lru, arg>>

\* service.gtinToFqdn(arg) for a string of digits
ApplyGtinToFqdn ==
    /\ arg.type = "string"
    /\ \A i \in 1..Len(arg.text) : \E k \in 1..10 : DigitChars[k] = arg.text[i]
    /\ out' = [fn |-> "gtinToFqdn", error |-> "none", parsed |-> NoParse,
               digit |-> UndefinedNum, text |-> gtinToFqdn(arg.text), urls |-> <<>>]
    /\ UNCHANGED <<retry, ClsVars, ServiceVars, lru, arg>>

NextCodec == ApplyParseSgtin \/ ApplyCheckDigit \/ ApplySgtinToGtin13 \/ ApplyGtinToFqdn

SpecCodec == InitCodec /\ [][NextCodec]_vars

\* ------------------------------------------------------------------------
\* The candidate URLs on their own: the list callManufacturerApi builds from
\* its three arguments, for every profile of the table, the default profile
\* of two unknown prefixes and a single-template profile that does not
\* encode, for base URLs with no, one and two trailing slashes
\* ------------------------------------------------------------------------
InitUrls ==
    /\ retry = IdleRetry
    /\ clsErr = NoError
    /\ clsOut = "unset"
    /\ cfg \in Options({TRUE}, {TRUE}, {UndefinedNum})
    /\ Constructed
    /\ lru = NewLRUCache(UndefinedNum, UndefinedNum)
    /\ arg \in [type : {"call"},
                text : {SgtinA1, SgtinA3, SgtinB1},
                apiUrl : {<<"h", "t", "t", "p", ":", "/", "/", "m", "1", "/", "v", "1">>, <<"h", "t", "t", "p", ":", "/", "/", "m", "1", "/", "v", "1", "/">>,
                          <<"h", "t", "t", "p", "s", ":", "/", "/", "m", "2", "/">>, <<"h", "t", "t", "p", "s", ":", "/", "/", "m", "2", "/", "/">>},
                manufacturer :
                    {getManufacturerConfig(ManufacturerTable[i][1]) :
                        i \in 1..Len(ManufacturerTable)}
                    \cup {getManufacturerConfig(<<"0", "8", "6", "6", "9", "9", "9">>), getManufacturerConfig(<<"5", "4", "5", "2", "0", "0", "0", "7">>),
                          Profile("Raw", <<>>, PatternTyre, FALSE, <<>>, FALSE, FALSE)}]
    /\ out = [fn |-> "none", error |-> "none", parsed |-> NoParse, digit |-> UndefinedNum,
              text |-> <<>>, urls |-> <<>>]

ApplyCandidateUrls ==
    /\ arg.type = "call"
    /\ out' = [fn |-> "callManufacturerApi", error |-> "none", parsed |-> NoParse,
               digit |-> UndefinedNum, text |-> <<>>,
               urls |-> CandidateUrls(arg.apiUrl, arg.text, arg.manufacturer)]
    /\ UNCHANGED <<retry, ClsVars, ServiceVars, lru, arg>>

SpecUrls == InitUrls /\ [][ApplyCandidateUrls]_vars

\* ------------------------------------------------------------------------
\* getTireInfoBatch (gdso-service.js:891-959). The call awaits resolveOns,
\* callBatchApi and callManufacturerApi one after the other: each runs as a
\* frame of the service, and the batch goes on when the frame is done.
\* `out` is the call: its position, the groups, the group and chunk it is
\* at, what resolveOns returned for the group, the results pushed and the
\* slices handed to callBatchApi.
\* ------------------------------------------------------------------------
MaxBatchLen == 3

\* a < b, for two runs of digits without leading zeros
NumLess(a, b) ==
    \/ Len(a) < Len(b)
    \/ /\ Len(a) = Len(b)
       /\ \E i \in 1..Len(a) : /\ DigitVal(a[i]) < DigitVal(b[i])
                               /\ \A k \in 1..(i - 1) : a[k] = b[k]

\* an integer-like key of an object: a canonical array index, below 2^32 - 1
IsArrayIndex(key) ==
    /\ Len(key) > 0
    /\ Len(key) = 1 \/ key[1] # "0"
    /\ NumLess(key, <<"4", "2", "9", "4", "9", "6", "7", "2", "9", "5">>)

\* the loop that fills `groups`: one entry per company prefix, in the order
\* of first appearance, each with its identifiers in input order
GroupByPrefix(sgtinUrns) ==
    LET prefix == [k \in 1..Len(sgtinUrns) |-> parseSgtin(sgtinUrns[k]).companyPrefix]
        first == SortedSeq({k \in 1..Len(sgtinUrns) : \A m \in 1..(k - 1) : prefix[m] # prefix[k]})
    IN  [n \in 1..Len(first) |->
            [prefix |-> prefix[first[n]],
             sgtins |-> SelectSeq(sgtinUrns,
                                  LAMBDA s : parseSgtin(s).companyPrefix = prefix[first[n]])]]

\* Object.entries(groups): the integer-like keys first, in increasing
\* order, then the other keys in the order of insertion
ObjectEntries(groups) ==
    LET index == {k \in 1..Len(groups) : IsArrayIndex(groups[k].prefix)}
        rank(k) == 1 + Cardinality({n \in index : NumLess(groups[n].prefix, groups[k].prefix)})
    IN  [r \in 1..Cardinality(index) |-> groups[CHOOSE k \in index : rank(k) = r]]
        \o SelectSeq(groups, LAMBDA e : ~IsArrayIndex(e.prefix))

\* a variant, used to test the properties: the slices overlap by one
SliceFromBefore(sgtins, from, to) ==
    SubSeq(sgtins, IF from = 0 THEN 1 ELSE from, IF to < Len(sgtins) THEN to ELSE Len(sgtins))

\* sgtins.slice(from, to)
Slice(sgtins, from, to) ==
    SubSeq(sgtins, from + 1, IF to < Len(sgtins) THEN to ELSE Len(sgtins))

BatchIdle ==
    [fn |-> "getTireInfoBatch", pc |-> "idle", groups |-> <<>>, g |-> 0, i |-> 0, j |-> 0,
     ons |-> NoOns, results |-> <<>>, slices |-> <<>>, error |-> NoError]

\* the result pushed for an identifier of the group
TireResult(ons, sgtin, data) ==
    [sgtin |-> sgtin, manufacturer |-> ons.manufacturer.name, gtin13 |-> ons.gtin13,
     apiUrl |-> ons.apiUrl, data |-> data]

\* the results pushed for the items of an array
BatchResults(ons, batch, batchData) ==
    [k \in 1..Len(batchData) |->
        TireResult(ons,
                   IF batchData[k].uii # <<>> THEN batchData[k].uii
                   ELSE IF k <= Len(batch) THEN batch[k] ELSE <<>>,
                   batchData[k])]

\* the next turn of the loop over the groups: resolveOns(sgtins[0]), or
\* `return results`
EnterGroup(o, g) ==
    IF g > Len(o.groups) THEN [o |-> [o EXCEPT !.pc = "returned"], S |-> Cur]
    ELSE [o |-> [o EXCEPT !.pc = "resolve", !.g = g, !.i = 0, !.j = 0],
          S |-> resolveOns(NewFrame("resolveOns", o.groups[g].sgtins[1], <<>>, NoManufacturer))]

\* a variant, used to test the properties: after a fallback the group is left
EnterChunkLeavesGroup(o, i) ==
    IF i >= Len(o.groups[o.g].sgtins) \/ o.pc = "fallback" THEN EnterGroup(o, o.g + 1)
    ELSE LET batch == Slice(o.groups[o.g].sgtins, i, i + BatchLimit) IN
         [o |-> [o EXCEPT !.pc = "batch", !.i = i, !.j = 0,
                          !.slices = Append(@, [g |-> o.g, from |-> i, batch |-> batch])],
          S |-> authenticate([NewFrame("callBatchApi", <<>>, o.ons.apiUrl, o.ons.manufacturer)
                                 EXCEPT !.frame.sgtins = batch])]

\* the next turn of the loop over the chunks: callBatchApi(apiUrl, batch,
\* manufacturer), which first awaits authenticate
EnterChunk(o, i) ==
    IF i >= Len(o.groups[o.g].sgtins) THEN EnterGroup(o, o.g + 1)
    ELSE LET batch == Slice(o.groups[o.g].sgtins, i, i + BatchLimit) IN
         [o |-> [o EXCEPT !.pc = "batch", !.i = i, !.j = 0,
                          !.slices = Append(@, [g |-> o.g, from |-> i, batch |-> batch])],
          S |-> authenticate([NewFrame("callBatchApi", <<>>, o.ons.apiUrl, o.ons.manufacturer)
                                 EXCEPT !.frame.sgtins = batch])]

\* callManufacturerApi(apiUrl, sgtin, manufacturer), which first awaits
\* authenticate
Lookup(o, pc, j, sgtin) ==
    [o |-> [o EXCEPT !.pc = pc, !.j = j],
     S |-> authenticate(NewFrame("callManufacturerApi", sgtin, o.ons.apiUrl, o.ons.manufacturer))]

\* the next turn of the fallback loop over the chunk
EnterFallback(o, j) ==
    LET batch == o.slices[Len(o.slices)].batch IN
    IF j > Len(batch) THEN EnterChunk(o, o.i + BatchLimit)
    ELSE Lookup(o, "fallback", j, batch[j])

\* an awaited call threw: getTireInfoBatch rejects with its error
BatchRaised(o, e) == [o |-> [o EXCEPT !.pc = "raised", !.error = e], S |-> Cur]

BatchStep(P) ==
    /\ out' = P.o
    /\ Apply(P.S)
    /\ lastResp' = NoResp
    /\ UNCHANGED <<cfg, ClsVars, lru, arg>>

\* a variant, used to test the properties: an identifier is parsed only
\* when its group is resolved
CallGetTireInfoBatchUnparsed ==
    /\ out.pc = "idle"
    /\ CanCall
    /\ BatchStep(IF Len(arg.sgtins) > 0 /\ ~parseSgtin(arg.sgtins[1]).ok
                 THEN BatchRaised(out, SgtinParseError)
                 ELSE EnterGroup([out EXCEPT !.groups = ObjectEntries(GroupByPrefix(arg.sgtins))],
                                 1))

\* getTireInfoBatch(sgtinUrns): every identifier is parsed while the
\* groups are filled, then the first group is entered
CallGetTireInfoBatch ==
    /\ out.pc = "idle"
    /\ CanCall
    /\ BatchStep(IF \E k \in 1..Len(arg.sgtins) : ~parseSgtin(arg.sgtins[k]).ok
                 THEN BatchRaised(out, SgtinParseError)
                 ELSE EnterGroup([out EXCEPT !.groups = ObjectEntries(GroupByPrefix(arg.sgtins))],
                                 1))

\* resolveOns is done
AfterResolveOns ==
    /\ out.pc = "resolve"
    /\ frame.pc = "done"
    /\ BatchStep(IF frame.outcome = "raised" THEN BatchRaised(out, frame.error)
                 ELSE LET o == [out EXCEPT !.ons = frame.resultOns] IN
                      IF Len(o.groups[o.g].sgtins) > 1 THEN EnterChunk(o, 0)
                      ELSE Lookup(o, "single", 0, o.groups[o.g].sgtins[1]))

\* callBatchApi is done: the items of an array are pushed, anything else
\* starts the fallback
AfterCallBatchApi ==
    /\ out.pc = "batch"
    /\ frame.pc = "done"
    /\ BatchStep(IF frame.outcome = "raised" THEN BatchRaised(out, frame.error)
                 ELSE IF frame.resultBatch.kind = "array"
                 THEN EnterChunk([out EXCEPT !.results =
                                     @ \o BatchResults(out.ons, frame.sgtins,
                                                       frame.resultBatch.items)],
                                 out.i + BatchLimit)
                 ELSE EnterFallback(out, 1))

\* callManufacturerApi is done, in the fallback or for a group of one
AfterLookup ==
    /\ out.pc \in {"fallback", "single"}
    /\ frame.pc = "done"
    /\ BatchStep(IF frame.outcome = "raised" THEN BatchRaised(out, frame.error)
                 ELSE LET o == [out EXCEPT !.results =
                                   Append(@, TireResult(out.ons, frame.sgtin, frame.resultData))]
                      IN  IF out.pc = "single" THEN EnterGroup(o, o.g + 1)
                          ELSE EnterFallback(o, o.j + 1))

\* the answers of the batch runs: the name resolves or does not exist, the
\* token is granted or refused, the batch endpoint does not exist, answers
\* with something that is not JSON, or with one of the bodies of BatchPayload
BatchDnsResponses == {Resp("response", 404, FALSE, 0), Resp("response", 200, TRUE, 1)}
BatchTokenResponses == {Resp("response", 401, FALSE, 0), Resp("response", 200, FALSE, 6)}
PostResponses ==
    {Resp("response", 404, FALSE, 0), Resp("response", 200, FALSE, 0)}
    \cup {Resp("response", 200, TRUE, b) : b \in 1..5}

\* the answer to the POST of callBatchApi
PostResponds ==
    /\ frame.pc = "post"
    /\ \E resp \in PostResponses : Apply(OnPostResponse(Cur, resp)) /\ lastResp' = resp
    /\ UNCHANGED <<cfg, ClsVars, DevVars>>

\* the answer of the manufacturer to a GET: it has the tire (200 with its
\* data) or has not (404), as the run's `missing` says: "none" is missing,
\* those of even serial are, or all are
ManufacturerResponds ==
    /\ frame.pc = "get"
    /\ LET serial == parseSgtin(frame.sgtin).serialNumber
           has == \/ arg.missing = "none"
                  \/ arg.missing = "even" /\ DigitVal(serial[Len(serial)]) % 2 = 1
           resp == IF has THEN Resp("response", 200, TRUE, 1) ELSE Resp("response", 404, FALSE, 0)
       IN  Apply(OnGetResponse(Cur, resp, FALSE)) /\ lastResp' = resp
    /\ UNCHANGED <<cfg, ClsVars, DevVars>>

\* the decimal digits of a number
RECURSIVE Decimal(_)
Decimal(n) == IF n < 10 THEN <<DigitChars[n + 1]>> ELSE Decimal(n \div 10) \o <<DigitChars[(n % 10) + 1]>>

\* n serials of one Michelin product
Serials(n) ==
    [k \in 1..n |-> Sgtin(<<"0", "8", "6", "6", "9", "9">>, <<"0", "9", "8", "8", "2", "2", "9">>, Decimal(k))]

\* The lists: every list of up to MaxBatchLen identifiers among two serials
\* of a Michelin product, another Michelin product, the Goodyear identifier
\* (its company prefix is an integer-like key) and a malformed one; a group
\* of exactly one chunk, of one chunk and one identifier (with the Goodyear
\* identifier in between) and of two chunks and one identifier
BatchInputs ==
    LET ids == {SgtinA1, SgtinA2, Sgtin(<<"0", "8", "6", "6", "9", "9">>, <<"0", "7", "6", "2", "5", "7", "5">>, <<"1">>),
                Sgtin(<<"5", "4", "5", "2", "0", "0", "0", "7">>, <<"0", "8", "8", "8", "5", "5">>, <<"1">>), SgtinBad}
        more == Serials(BatchLimit + 1)
    IN  UNION {[1..n -> ids] : n \in 0..MaxBatchLen}
        \cup {Serials(BatchLimit),
              <<more[1], Sgtin(<<"5", "4", "5", "2", "0", "0", "0", "7">>, <<"0", "8", "8", "8", "5", "5">>, <<"1">>)>> \o Tail(more),
              Serials(2 * BatchLimit + 1)}

InitBatch ==
    /\ retry = IdleRetry
    /\ clsErr = NoError
    /\ clsOut = "unset"
    /\ cfg \in Options({TRUE}, {TRUE}, {UndefinedNum})
    /\ Constructed
    /\ lru = NewLRUCache(UndefinedNum, UndefinedNum)
    /\ arg \in [type : {"array"}, sgtins : BatchInputs, missing : {"none", "even", "all"}]
    /\ out = BatchIdle

NextBatch ==
    \/ CallGetTireInfoBatch
    \/ AfterResolveOns
    \/ AfterCallBatchApi
    \/ AfterLookup
    \/ DnsResponds(BatchDnsResponses)
    \/ TokenResponds(BatchTokenResponses)
    \/ PostResponds
    \/ ManufacturerResponds

SpecBatch == InitBatch /\ [][NextBatch]_vars

\* getTireInfoBatch on a service that has served getTireInfo before: the
\* cache and the token slot may be filled when the batch is called
InitValidate ==
    /\ retry = IdleRetry
    /\ clsErr = NoError
    /\ clsOut = "unset"
    /\ cfg \in Options({TRUE}, {TRUE}, {UndefinedNum})
    /\ Constructed
    /\ lru = NewLRUCache(UndefinedNum, UndefinedNum)
    /\ arg \in [type : {"array"},
                sgtins : UNION {[1..n -> {SgtinA1, SgtinA2, SgtinBad}] : n \in 0..MaxBatchLen},
                missing : {"none", "all"}]
    /\ out = BatchIdle

NextValidate ==
    \/ out.pc = "idle" /\ CallGetTireInfo({SgtinA1, SgtinBad})
    \/ NextBatch

SpecValidate == InitValidate /\ [][NextValidate]_vars

\* ========================================================================
\* Properties of the retry executor (checked under SpecRetry)
\* ========================================================================
\* What the log of a withRetry call says
Count(log, ev) == Cardinality({i \in 1..Len(log) : log[i].ev = ev})
Invocations(r) == Count(r.log, "invoke")
Callbacks(r) == Count(r.log, "onRetry")
Sleeps(r) == Count(r.log, "sleep")
FailuresOf(r) == [i \in 1..Count(r.log, "fail") |->
                    LET idx == CHOOSE j \in 1..Len(r.log) :
                                 r.log[j].ev = "fail" /\ r.log[j].n = i
                    IN r.log[idx].err]

RECURSIVE Pow(_, _)
Pow(b, e) == IF e = 0 THEN 1 ELSE b * Pow(b, e - 1)

Retryable(r, e) == ShouldRetry(r.opts.shouldRetry, e)
Finished(r) == r.pc \in {"returned", "raised"}
LastEv(r) == r.log[Len(r.log)]
FailIdx(r) == {i \in 1..Len(r.log) : r.log[i].ev = "fail"}

\* C3: when the operation fails with retryable errors on attempts 1..k-1 and
\* succeeds on attempt k (k <= maxAttempts), withRetry returns that success
\* value, the operation was invoked exactly k times, and it is never invoked
\* again after the success.
C3_SuccessOnAttemptK ==
    \A i \in 1..Len(retry.log) :
        retry.log[i].ev = "ok" =>
            /\ retry.pc = "returned"
            /\ retry.value = retry.log[i].val
            /\ i = Len(retry.log)
            /\ retry.log[i].n = Count(retry.log, "fail") + 1
            /\ Invocations(retry) = retry.log[i].n
            /\ retry.log[i].n <= retry.opts.maxAttempts

\* the scenario of the unit test: two retryable failures, then success, under
\* a policy allowing 3 attempts
C3_Witness ==
    /\ retry.pc = "returned"
    /\ retry.opts.maxAttempts = 3
    /\ Count(retry.log, "fail") = 2
    /\ Invocations(retry) = 3
    /\ retry.value = "other"

\* C4: when the operation fails on every attempt and every error is classified
\* retryable, the operation is invoked exactly maxAttempts times and withRetry
\* then raises RetryExhausted carrying the error of the last attempt.
C4_ExhaustsAfterMaxAttempts ==
    /\ Invocations(retry) <= retry.opts.maxAttempts
    /\ (/\ Finished(retry)
        /\ Count(retry.log, "ok") = 0
        /\ \A i \in FailIdx(retry) : Retryable(retry, retry.log[i].err))
       => /\ retry.pc = "raised"
          /\ Invocations(retry) = retry.opts.maxAttempts
          /\ Count(retry.log, "fail") = retry.opts.maxAttempts
          /\ retry.error.name = "RetryExhaustedError"
          /\ retry.error.last = Wrapped(LastEv(retry).err)
          /\ LastEv(retry).ev = "fail"

C4_Witness ==
    /\ retry.pc = "raised"
    /\ retry.opts.shouldRetry = "always"
    /\ retry.opts.maxAttempts = 3
    /\ Invocations(retry) = 3
    /\ retry.error.last = Wrapped(PlainError)

\* C5: when an attempt fails with an error the policy classifies as
\* non-retryable, the operation is not invoked again whatever maxAttempts is
\* (exactly one invocation when the first attempt is the non-retryable one), no
\* retry callback is called and no delay is waited for that failure, and
\* withRetry raises RetryExhausted.
C5_NonRetryableStops ==
    \A i \in FailIdx(retry) :
        ~Retryable(retry, retry.log[i].err) =>
            /\ i = Len(retry.log)
            /\ retry.pc = "raised"
            /\ retry.error.name = "RetryExhaustedError"
            /\ Invocations(retry) = retry.log[i].n
            /\ Callbacks(retry) = (IF retry.opts.onRetry THEN retry.log[i].n - 1 ELSE 0)
            /\ Sleeps(retry) = retry.log[i].n - 1

\* the scenario of the unit test: maxAttempts 5 is out of the bound, so the
\* largest bound stands for it
C5_Witness ==
    /\ retry.pc = "raised"
    /\ retry.opts.shouldRetry = "notNoRetry"
    /\ retry.opts.maxAttempts = MaxAttemptsBound
    /\ retry.opts.onRetry
    /\ Invocations(retry) = 1
    /\ LastEv(retry).err = NoRetryError

\* C6: the attempt count carried by a RetryExhausted error raised by withRetry
\* equals the number of times the operation was actually invoked, and its
\* wrapped error is the error of the last invocation.
C6_AttemptCountIsInvocations ==
    retry.pc = "raised" =>
        /\ retry.error.attempts = Invocations(retry)
        /\ retry.error.last = Wrapped(LastEv(retry).err)

\* C7: before the retry that follows failed attempt n the retry callback is
\* called exactly once with (n, initialDelay * backoffMultiplier^(n-1)), then
\* that same delay is waited, then the operation is invoked again; the callback
\* is called exactly (invocations - 1) times and no delay is waited after the
\* final failure. Under the default policy the sequence is fail, wait 1000 ms,
\* fail, wait 2000 ms, fail, raise.
DelayBefore(r, n) == r.opts.delayMs * Pow(r.opts.backoffMultiplier, n - 1)

Shape(log) == [i \in 1..Len(log) |-> <<log[i].ev, log[i].n, log[i].d>>]

DefaultFailureShape ==
    << <<"invoke", 1, 0>>, <<"fail", 1, 0>>, <<"onRetry", 1, 1000>>, <<"sleep", 1, 1000>>,
       <<"invoke", 2, 0>>, <<"fail", 2, 0>>, <<"onRetry", 2, 2000>>, <<"sleep", 2, 2000>>,
       <<"invoke", 3, 0>>, <<"fail", 3, 0>> >>

C7_BackoffSchedule ==
    LET log == retry.log IN
    /\ \A i \in 1..Len(log) :
          /\ log[i].ev = "sleep" =>
                /\ log[i].d = DelayBefore(retry, log[i].n)
                /\ i > 1
                /\ log[i - 1].ev = (IF retry.opts.onRetry THEN "onRetry" ELSE "fail")
                /\ log[i - 1].n = log[i].n
                /\ i < Len(log) => log[i + 1] = Ev("invoke", log[i].n + 1, 0, NoError)
                /\ i = Len(log) => retry.pc = "sleeping"
          /\ log[i].ev = "onRetry" =>
                /\ retry.opts.onRetry
                /\ log[i].d = DelayBefore(retry, log[i].n)
                /\ i > 1 /\ log[i - 1].ev = "fail" /\ log[i - 1].n = log[i].n
                /\ i < Len(log) /\ log[i + 1] = Ev("sleep", log[i].n, log[i].d, NoError)
          /\ (log[i].ev = "invoke" /\ i > 1) =>
                log[i - 1] = Ev("sleep", log[i].n - 1, DelayBefore(retry, log[i].n - 1), NoError)
    /\ Finished(retry) =>
          /\ Sleeps(retry) = Invocations(retry) - 1
          /\ retry.opts.onRetry => Callbacks(retry) = Invocations(retry) - 1
          /\ LastEv(retry).ev \in {"fail", "ok"}
    /\ (/\ retry.pc = "raised"
        /\ retry.opts = WithDefaults(DefaultOptions(TRUE))
        /\ Count(retry.log, "fail") = 3)
       => Shape(log) = DefaultFailureShape

C7_Witness ==
    /\ retry.pc = "raised"
    /\ retry.opts = WithDefaults(DefaultOptions(TRUE))
    /\ Shape(retry.log) = DefaultFailureShape

\* ========================================================================
\* Properties of the default classifier (checked under SpecClassify)
\* ========================================================================

\* C8: the default retryability classifier returns false for validation/parse
\* errors and missing-credentials errors (even if they also look like network
\* errors), true for timeout, connection-reset and host-not-found errors and
\* for errors carrying an HTTP status >= 500 or equal to 429, and false for
\* every other error (any other HTTP status, or no status).
LooksLikeNetworkError(e) ==
    e.name = "TimeoutError" \/ e.code \in {"ECONNRESET", "ENOTFOUND", "ETIMEDOUT"}

C8_DefaultClassifier ==
    clsOut # "unset" =>
        /\ clsErr.code \in {"SGTIN_PARSE_ERROR", "CREDENTIALS_MISSING"} => clsOut = "false"
        /\ (clsErr.code \notin {"SGTIN_PARSE_ERROR", "CREDENTIALS_MISSING"}
            /\ LooksLikeNetworkError(clsErr)) => clsOut = "true"
        /\ (clsErr.code \notin {"SGTIN_PARSE_ERROR", "CREDENTIALS_MISSING"}
            /\ clsErr.httpStatus \in Nat
            /\ (clsErr.httpStatus >= 500 \/ clsErr.httpStatus = 429)) => clsOut = "true"
        /\ (clsErr.code \notin {"SGTIN_PARSE_ERROR", "CREDENTIALS_MISSING"}
            /\ ~LooksLikeNetworkError(clsErr)
            /\ (clsErr.httpStatus \notin Nat
                \/ (clsErr.httpStatus < 500 /\ clsErr.httpStatus # 429))) => clsOut = "false"

\* a server error on a plain error is retried; so is the boundary status 500
C8_Witness ==
    /\ clsOut = "true"
    /\ clsErr.httpStatus = 500
    /\ clsErr.code = "AUTH_ERROR"
    /\ clsErr.name = "AuthenticationError"

\* ========================================================================
\* Properties of the service (checked under Spec and SpecResolve)
\* ========================================================================
KindCount(kind) == Cardinality({i \in 1..Len(net) : net[i].kind = kind})
Rank(kind) == CASE kind = "dns" -> 1 [] kind = "token" -> 2 [] kind = "get" -> 3

\* the answer of a candidate that carries a payload: 2xx, a JSON body, and
\* no exception from the transform hook
Usable(resp) == ResponseOk(resp) /\ resp.json /\ ~resp.hookThrows

\* entering the candidate loop requests the first candidate
FirstCandidate ==
    (frame.pc # "get" /\ frame'.pc = "get") =>
        /\ frame'.urlIdx = 1
        /\ Len(frame'.urls) >= 1
        /\ KindCount("get")' = 1
        /\ net'[Len(net')] = Request("get", frame'.urls[1], frame'.bearer)

\* what the answer to the candidate in flight leads to: when it `stops` the
\* loop the call returns its payload and requests nothing more; otherwise the
\* next candidate of the list is requested, or, after the last one, the call
\* returns null data
CandidateStep(stops) ==
    frame.pc = "get" =>
        IF stops
        THEN /\ frame'.pc = "done"
             /\ frame'.outcome = "returned"
             /\ net' = net
             /\ frame'.resultData.payload = lastResp'.body
             /\ frame'.resultData.transformed = frame.manufacturer.transformResponse
             /\ frame.entry = "getTireInfo" => frame'.resultTire.data = frame'.resultData
        ELSE IF frame.urlIdx < Len(frame.urls)
        THEN /\ frame'.pc = "get"
             /\ frame'.urlIdx = frame.urlIdx + 1
             /\ net' = Append(net, Request("get", frame.urls[frame.urlIdx + 1], frame.bearer))
        ELSE /\ frame'.pc = "done"
             /\ frame'.outcome = "returned"
             /\ net' = net
             /\ frame'.resultData = NullData
             /\ frame.entry = "getTireInfo" => frame'.resultTire.data = NullData

\* C1 (as stated): the candidates are requested one at a time in list order
\* and the loop stops at the first candidate that answers with HTTP 2xx: its
\* payload (transformed when the profile has a hook) is the result and no
\* later candidate is requested; any other answer moves on to the next
\* candidate; when every candidate fails the result has data = null and
\* nothing is raised.
C1_StopsAtFirst2xx == [][FirstCandidate /\ CandidateStep(ResponseOk(lastResp'))]_vars

\* C1 (amended): the loop stops at the first candidate that answers with HTTP
\* 2xx and a body that parses as JSON on which the transform hook, when set,
\* does not throw; a 2xx answer without such a payload moves on to the next
\* candidate as a 404, another non-2xx status or a transport error does.
C1_StopsAtFirstPayload == [][FirstCandidate /\ CandidateStep(Usable(lastResp'))]_vars

\* getTireInfo for an unknown prefix returned the payload of its third
\* candidate
C1_Witness ==
    /\ frame.entry = "getTireInfo"
    /\ frame.pc = "done"
    /\ frame.outcome = "returned"
    /\ frame.urlIdx = 3
    /\ KindCount("get") = 3
    /\ Usable(lastResp)
    /\ frame.resultTire.data = Data(lastResp.body)

\* C2: in getTireInfo the requests go out in the order DNS query, token
\* request, manufacturer GETs; no token request without a successful resolve,
\* no GET without a token obtained; a failure of resolve or of authentication
\* is raised by getTireInfo, which then returns no result (never data = null).
C2_SequentialPipeline ==
    frame.entry = "getTireInfo" =>
        /\ \A i, j \in 1..Len(net) : i < j => Rank(net[i].kind) <= Rank(net[j].kind)
        /\ KindCount("token") > 0 => frame.resolved
        /\ KindCount("get") > 0 =>
              /\ frame.resolved /\ frame.authed /\ TokenSet(frame.bearer)
              /\ \A i \in 1..Len(net) : net[i].kind = "get" => net[i].bearer = frame.bearer
        /\ frame.pc = "done" =>
              IF frame.resolved /\ frame.authed
              THEN frame.outcome = "returned"
              ELSE /\ frame.outcome = "raised"
                   /\ frame.error # NoError
                   /\ frame.resultTire = NoTire
        /\ retry.pc = "raised" => frame.outcome = "raised" /\ frame.error = retry.error

\* getTireInfo resolved over DNS, then the token endpoint rejected the
\* request: the call raised
C2_Witness ==
    /\ frame.entry = "getTireInfo"
    /\ frame.pc = "done"
    /\ frame.outcome = "raised"
    /\ frame.resolved
    /\ KindCount("dns") = 1
    /\ KindCount("token") = 1
    /\ KindCount("get") = 0
    /\ frame.error.last = Wrapped(AuthenticationError(401))

SleepDelays(r) == [i \in 1..Sleeps(r) |->
                     LET idx == CHOOSE j \in 1..Len(r.log) :
                                  r.log[j].ev = "sleep" /\ r.log[j].n = i
                     IN r.log[idx].d]

ErrorNameOf(kind) == IF kind = "dns" THEN "DnsResolutionError" ELSE "AuthenticationError"
ErrorCodeOf(kind) == IF kind = "dns" THEN "DNS_RESOLUTION_ERROR" ELSE "AUTH_ERROR"

\* C9: for the DNS query and for the token request: a response with status
\* >= 500 or 429 ends the call only as the third one, after waits of 1000 ms
\* and 2000 ms, with RetryExhausted wrapping the DnsResolutionFailed /
\* AuthenticationFailed error; a response with any other non-success status
\* ends the call at once: the request is not sent again (sent exactly once
\* when it is the first response).
C9_RetryOnTransientStatus ==
    (retry.pc # "idle" /\ lastResp.kind = "response" /\ ~ResponseOk(lastResp)) =>
        LET sent == KindCount(frame.retrying)
            s == lastResp.status
        IN  /\ sent = Invocations(retry)
            /\ sent <= 3
            /\ IF s >= 500 \/ s = 429
               THEN /\ retry.pc = "raised" <=> Count(retry.log, "fail") = 3
                    /\ retry.pc = "raised" => sent = 3
                    /\ retry.pc # "raised" => retry.pc \in {"sleeping", "calling"}
                    /\ retry.pc = "raised" =>
                          /\ SleepDelays(retry) = <<1000, 2000>>
                          /\ retry.error.name = "RetryExhaustedError"
                          /\ retry.error.last =
                                 <<ErrorNameOf(frame.retrying), ErrorCodeOf(frame.retrying), s>>
                          /\ frame.pc = "done"
                          /\ frame.outcome = "raised"
                          /\ frame.error = retry.error
               ELSE /\ retry.pc = "raised"
                    /\ frame.pc = "done"
                    /\ frame.outcome = "raised"
                    /\ sent = Count(retry.log, "fail")
                    /\ Sleeps(retry) = sent - 1

\* getTireInfo resolved over DNS, then the token endpoint answered 500 three
\* times
C9_Witness ==
    /\ frame.entry = "getTireInfo"
    /\ frame.retrying = "token"
    /\ retry.pc = "raised"
    /\ KindCount("dns") = 1
    /\ KindCount("token") = 3
    /\ lastResp.status = 500
    /\ \A i \in 1..3 : FailuresOf(retry)[i] = AuthenticationError(500)

\* C10: with the cache enabled, a resolveOns for an identifier whose GTIN-13
\* was resolved before, not later than the TTL after that resolution was
\* stored and with the cache not cleared since, issues no DNS request and
\* returns the same gtin13, fqdn, apiUrl and services.
C10_CacheHitWithinTtl ==
    LET parsed == parseSgtin(frame.sgtin) IN
    (cfg.useCache /\ frame.entry = "resolveOns" /\ parsed.ok) =>
        \A r \in frame.startStored :
            (r.gtin13 = sgtinToGtin13(parsed) /\ frame.startNow <= r.at + cfg.cacheTtlMs) =>
                /\ KindCount("dns") = 0
                /\ frame.pc = "done"
                /\ frame.outcome = "returned"
                /\ frame.resultOns.gtin13 = r.gtin13
                /\ frame.resultOns.fqdn = r.fqdn
                /\ frame.resultOns.apiUrl = r.apiUrl
                /\ frame.resultOns.services = r.services

\* the second serial of a product is resolved at the last millisecond of the
\* TTL of the entry stored for the first serial
C10_Witness ==
    /\ cfg.useCache
    /\ frame.entry = "resolveOns"
    /\ frame.sgtin = SgtinA2
    /\ frame.pc = "done"
    /\ frame.outcome = "returned"
    /\ net = <<>>
    /\ \E r \in frame.startStored :
          /\ r.sgtin = SgtinA1
          /\ frame.startNow = r.at + cfg.cacheTtlMs
          /\ frame.resultOns.apiUrl = r.apiUrl

\* ========================================================================
\* Properties of the LRUCache (SpecLRU)
\* ========================================================================
KeysOf(cache) == {cache[i].key : i \in 1..Len(cache)}

EntriesOf(cache) == {cache[i] : i \in 1..Len(cache)}

EntryOf(cache, key) == cache[LRUIndex(cache, key)]

Without(cache, key) == SelectSeq(cache, LAMBDA e : e.key # key)

\* the step is a set (get) that changed the cache or its last operation
SetStep == lru' # lru /\ lru'.op = "set"

GetStep == lru' # lru /\ lru'.op = "get"

\* the step is a set of a key that is not there while the cache is full
EvictingSet == SetStep /\ lru'.key \notin KeysOf(lru.cache) /\ Len(lru.cache) >= lru.maxSize

\* C14: after any sequence of set, get, has, delete and clear, a cache built
\* with maxSize >= 1 holds at most maxSize entries.
C14_SizeAtMostMaxSize ==
    lru.maxSize >= 1 => Len(lru.cache) <= lru.maxSize /\ Cardinality(KeysOf(lru.cache)) = Len(lru.cache)

\* C14 witness: a set has just evicted an entry of a full cache of two.
C14_Witness ==
    lru.op = "set" /\ lru.maxSize = 2 /\ Len(lru.cache) = 2 /\ lru.gone # {}

\* C15: a set of a key that is not there, at capacity, removes exactly the
\* least recently used entry and keeps the others; a set of a key that is
\* there replaces its value and expiry, makes it the most recent and evicts
\* nothing, full or not; a set below capacity evicts nothing.
C15_SetEvictsOnlyTheLeastRecent ==
    [][SetStep =>
        LET old == lru.cache
            new == lru'.cache
            k == lru'.key
            ttl == IF lru'.ttl = UndefinedNum THEN lru.ttlMs ELSE lru'.ttl
        IN  /\ new[Len(new)] = [key |-> k, value |-> lru'.value, expiry |-> now + ttl]
            /\ lru'.recent[Len(lru'.recent)] = k
            /\ IF k \in KeysOf(old)
               THEN KeysOf(new) = KeysOf(old) /\ Without(new, k) = Without(old, k)
               ELSE IF Len(old) >= lru.maxSize
               THEN /\ KeysOf(old) \ KeysOf(new) = {lru.recent[1]}
                    /\ Without(new, k) = Without(old, lru.recent[1])
               ELSE Without(new, k) = old]_vars

\* C15 witness: a set of a new key into a full cache of two has evicted one
\* entry and kept the other.
C15_Witness ==
    /\ lru.op = "set" /\ lru.maxSize = 2 /\ Len(lru.cache) = 2
    /\ Cardinality(lru.gone) = 1
    /\ lru.cache[1].key # lru.key

C17_GetAbsentIffMissingOrExpired ==
    [][/\ GetStep =>
            LET old == lru.cache
                new == lru'.cache
                k == lru'.key
            IN  /\ lru'.result = UndefinedNum
                      <=> (k \notin KeysOf(old) \/ now > EntryOf(old, k).expiry)
                /\ k \notin KeysOf(old) => new = old
                /\ k \in KeysOf(old) /\ now > EntryOf(old, k).expiry
                      => /\ new = Without(old, k)
                         /\ Len(new) = Len(old) - 1
                /\ k \in KeysOf(old) /\ now <= EntryOf(old, k).expiry
                      => lru'.result = EntryOf(old, k).value
       /\ SetStep =>
            EntryOf(lru'.cache, lru'.key).expiry
                = now + (IF lru'.ttl = UndefinedNum THEN lru.ttlMs ELSE lru'.ttl)]_vars

\* C17 witness: a get has found its entry expired and removed it.
C17_Witness ==
    /\ lru.op = "get" /\ lru.result = UndefinedNum
    /\ \E e \in lru.gone : e.key = lru.key /\ now > e.expiry

\* C18: the passing of time removes nothing; an entry leaves the cache only by
\* a read of its key after its expiry, a delete of its key, a clear, a set of
\* its key, or as the first entry when a set of a new key finds the cache
\* full; and that set evicts the first entry and no other, whatever the
\* expiries are.
C18_EvictionIgnoresExpiry ==
    [][/\ now' # now => lru'.cache = lru.cache
       /\ \A e \in EntriesOf(lru.cache) \ EntriesOf(lru'.cache) :
             \/ lru'.op \in {"get", "has"} /\ lru'.key = e.key /\ now > e.expiry
             \/ lru'.op = "delete" /\ lru'.key = e.key
             \/ lru'.op = "clear"
             \/ lru'.op = "set" /\ lru'.key = e.key
             \/ EvictingSet /\ e = lru.cache[1]
       /\ EvictingSet
             => /\ lru.cache[1] \notin EntriesOf(lru'.cache)
                /\ Len(lru'.cache) = Len(lru.cache)
                /\ \A i \in 2..Len(lru.cache) : lru'.cache[i - 1] = lru.cache[i]]_vars

\* C18 witness: a set has evicted an entry that had not expired while an
\* entry that has expired is still in the cache.
C18_Witness ==
    /\ lru.op = "set"
    /\ \E e \in lru.gone : now <= e.expiry
    /\ \E i \in 1..Len(lru.cache) : lru.cache[i].key # lru.key /\ now > lru.cache[i].expiry

\* ========================================================================
\* Properties of resolveOns and authenticate (C11 to C13)
\* ========================================================================
\* a 2xx DNS response whose envelope has a non-zero Status, no Answer record,
\* or no record of a service whose tag contains the marker
NegativeAnswer(resp) ==
    /\ ResponseOk(resp) /\ resp.json
    /\ LET data == DnsEnvelopes[resp.body] IN
        \/ data.Status # 0
        \/ Len(data.Answer) = 0
        \/ \A i \in 1..Len(ParseAnswers(data.Answer)) :
              ~Includes(ParseAnswers(data.Answer)[i].service, ServiceMarker)

\* C11: when the DNS response is a negative answer, resolveOns raises
\* NaptrNotFoundError itself, not wrapped in RetryExhaustedError, and sends no
\* further DNS request (one request in all when it answers the first one);
\* nothing is cached.
C11_NegativeAnswerNotRetried ==
    [][frame.pc = "dns" /\ lastResp' # lastResp /\ NegativeAnswer(lastResp')
          => /\ frame'.pc = "done" /\ frame'.outcome = "raised"
             /\ frame'.error = NaptrNotFoundError
             /\ frame'.error.name # "RetryExhaustedError"
             /\ net' = net
             /\ (retry.attempt = 1 => KindCount("dns")' = 1)
             /\ retry'.pc # "sleeping"
             /\ onsCache' = onsCache /\ stored' = stored]_vars

\* C11 witness: the first DNS request was answered with Status 0 and one
\* record of another service, and resolveOns has raised after that one request.
C11_Witness ==
    /\ frame.pc = "done" /\ frame.entry = "resolveOns"
    /\ frame.error = NaptrNotFoundError
    /\ NegativeAnswer(lastResp)
    /\ DnsEnvelopes[lastResp.body].Status = 0
    /\ Len(DnsEnvelopes[lastResp.body].Answer) > 0
    /\ Len(net) = 1

\* the step is a call that starts with authenticate()
AuthCall(entry) ==
    CanCall /\ frame'.entry = entry /\ <<frame, net>>' # <<frame, net>>

\* a token is stored and the time is more than 60 s before its expiry
StoredTokenFresh ==
    /\ token # NoToken /\ token # Undefined /\ token # ""
    /\ tokenExpiry > 0
    /\ now + 60000 < tokenExpiry

\* C12: authenticate returns the stored token, unchanged and without a
\* request, exactly when a token is stored and now < expiry - 60000; otherwise
\* (the credentials being set) it sends a token request, and the token and the
\* expiry of the answer replace the stored ones.
C12_ReuseExactlyWhenFresh ==
    [][/\ AuthCall("authenticate") =>
            IF StoredTokenFresh
            THEN /\ frame'.pc = "done" /\ frame'.outcome = "returned"
                 /\ frame'.resultToken = token
                 /\ net' = <<>>
                 /\ token' = token /\ tokenExpiry' = tokenExpiry
            ELSE /\ frame'.outcome # "returned"
                 /\ cfg.credentials
                       => /\ frame'.pc = "auth"
                          /\ net' = <<Request("token", <<>>, NoToken)>>
       /\ frame.pc = "auth" /\ frame.entry = "authenticate" /\ frame'.outcome = "returned"
            => /\ ResponseOk(lastResp')
               /\ LET b == TokenBodies[lastResp'.body] IN
                     token' = (IF b.kind = "jwt" THEN b.token
                               ELSE IF b.AccessToken # Undefined THEN b.AccessToken
                               ELSE IF b.access_token # Undefined THEN b.access_token
                               ELSE b.IdToken)
               /\ frame'.resultToken = token'
               /\ tokenExpiry' # NullNum /\ tokenExpiry' # tokenExpiry]_vars

\* C12 witness: authenticate has returned the stored token without a request,
\* and the stored token was obtained one tick earlier or more.
C12_Witness ==
    /\ frame.entry = "authenticate" /\ frame.pc = "done" /\ frame.outcome = "returned"
    /\ net = <<>>
    /\ frame.resultToken = token
    /\ now >= TickMs

\* C13: with no reusable token and the credentials unset, authenticate raises
\* CredentialsMissingError, sends no request, does not enter withRetry and
\* leaves the stored token and expiry as they were.
C13_CredentialsMissingBeforeAnyRequest ==
    [][\A entry \in {"authenticate", "callManufacturerApi"} :
          AuthCall(entry) /\ ~StoredTokenFresh /\ ~cfg.credentials
             => /\ frame'.pc = "done" /\ frame'.outcome = "raised"
                /\ frame'.error = CredentialsMissingError
                /\ net' = <<>>
                /\ retry' = IdleRetry
                /\ token' = token /\ tokenExpiry' = tokenExpiry]_vars

\* C13 witness: authenticate has raised CredentialsMissingError with nothing
\* sent.
C13_Witness ==
    /\ ~cfg.credentials
    /\ frame.entry = "authenticate" /\ frame.pc = "done" /\ frame.outcome = "raised"
    /\ frame.error = CredentialsMissingError
    /\ net = <<>> /\ token = NoToken

\* ========================================================================
\* Properties of the SGTIN codec (SpecCodec)
\* ========================================================================
AllDigits(s) == \A i \in 1..Len(s) : s[i] \in {"0", "1", "2", "3", "4", "5", "6", "7", "8", "9"}

\* the text is the prefix, then three non-empty runs of digits separated by
\* two dots, and nothing else; i and j are the places of the two dots
WellFormedAt(t, i, j) ==
    /\ Len(UrnPrefix) + 1 < i /\ i + 1 < j /\ j < Len(t)
    /\ SubSeq(t, 1, Len(UrnPrefix)) = UrnPrefix
    /\ t[i] = "." /\ t[j] = "."
    /\ AllDigits(SubSeq(t, Len(UrnPrefix) + 1, i - 1))
    /\ AllDigits(SubSeq(t, i + 1, j - 1))
    /\ AllDigits(SubSeq(t, j + 1, Len(t)))

WellFormed(t) == \E i \in 1..Len(t), j \in 1..Len(t) : WellFormedAt(t, i, j)

\* C19: parseSgtin accepts its argument exactly when it is a string of the
\* form urn:epc:id:sgtin:<digits>.<digits>.<digits>, then returning the three
\* segments and the argument as urn; on every other argument it throws
\* SgtinParseError.
C19_AcceptsExactlyWellFormed ==
    out.fn = "parseSgtin" =>
        IF arg.type = "string" /\ WellFormed(arg.text)
        THEN /\ out.error = "none"
             /\ out.parsed.urn = arg.text
             /\ \E i \in 1..Len(arg.text), j \in 1..Len(arg.text) :
                   /\ WellFormedAt(arg.text, i, j)
                   /\ out.parsed.companyPrefix = SubSeq(arg.text, Len(UrnPrefix) + 1, i - 1)
                   /\ out.parsed.indicatorItemRef = SubSeq(arg.text, i + 1, j - 1)
                   /\ out.parsed.serialNumber = SubSeq(arg.text, j + 1, Len(arg.text))
        ELSE out.error = "SgtinParseError"

\* the digit of a character, and the sum of the claim: digit i (from 0, from
\* the left) of the n digits counts once when n - i is even, else three times
DigitOf(c) ==
    CASE c = "0" -> 0 [] c = "1" -> 1 [] c = "2" -> 2 [] c = "3" -> 3 [] c = "4" -> 4
      [] c = "5" -> 5 [] c = "6" -> 6 [] c = "7" -> 7 [] c = "8" -> 8 [] c = "9" -> 9

RECURSIVE SumUpTo(_, _)
SumUpTo(d, m) ==
    IF m = 0 THEN 0
    ELSE SumUpTo(d, m - 1)
         + DigitOf(d[m]) * (IF (Len(d) - (m - 1)) % 2 = 0 THEN 1 ELSE 3)

\* C20: for a digit string d, calculateCheckDigit is (10 - (S mod 10)) mod 10
\* with S the weighted sum above, a number in 0..9; it is 0 for
\* "0086699988229", 3 for "629104150021" and 5 for "001234567890".
C20_CheckDigitFormula ==
    out.fn = "calculateCheckDigit" =>
        /\ out.digit = (10 - (SumUpTo(arg.text, Len(arg.text)) % 10)) % 10
        /\ out.digit \in 0..9
        /\ arg.text = <<"0", "0", "8", "6", "6", "9", "9", "9", "8", "8", "2", "2", "9">> => out.digit = 0
        /\ arg.text = <<"6", "2", "9", "1", "0", "4", "1", "5", "0", "0", "2", "1">> => out.digit = 3
        /\ arg.text = <<"0", "0", "1", "2", "3", "4", "5", "6", "7", "8", "9", "0">> => out.digit = 5

\* C20 witness: the check digit of "0086699988229" has been computed.
C20_Witness ==
    /\ out.fn = "calculateCheckDigit"
    /\ arg.text = <<"0", "0", "8", "6", "6", "9", "9", "9", "8", "8", "2", "2", "9">>
    /\ out.digit = 0

\* the weight calculateCheckDigit gives the digit at place p (from 1, from the
\* left) is w: with that digit made 0 the result moves by w times the digit
WeighsAs(d, p, w) ==
    (calculateCheckDigit([d EXCEPT ![p] = "0"]) + 10 - out.digit) % 10 = (w * DigitOf(d[p])) % 10

\* C21 (as stated): the weights alternate between 1 and 3 and the rightmost
\* digit has weight 1, whatever the length.
C21_RightmostWeighsOne ==
    out.fn = "calculateCheckDigit" =>
        \A p \in 1..Len(arg.text) :
            WeighsAs(arg.text, p, IF (Len(arg.text) - p) % 2 = 0 THEN 1 ELSE 3)

\* C21 (amended): the weights alternate between 3 and 1 and the rightmost
\* digit has weight 3, whatever the length.
C21_RightmostWeighsThree ==
    out.fn = "calculateCheckDigit" =>
        \A p \in 1..Len(arg.text) :
            WeighsAs(arg.text, p, IF (Len(arg.text) - p) % 2 = 0 THEN 3 ELSE 1)

\* C21 witness: the check digit of "629104150021", whose last digit is 1, has
\* been computed.
C21_Witness ==
    /\ out.fn = "calculateCheckDigit"
    /\ arg.text = <<"6", "2", "9", "1", "0", "4", "1", "5", "0", "0", "2", "1">>
    /\ out.digit = 3

\* C22: for every identifier that parseSgtin accepts, sgtinToGtin13 returns
\* 13 digits that start with the companyPrefix; "0866999882290" for
\* urn:epc:id:sgtin:086699.0988229.72916502389.
C22_GtinHasThirteenDigits ==
    out.fn = "sgtinToGtin13" =>
        /\ Len(out.text) = 13
        /\ AllDigits(out.text)
        /\ SubSeq(out.text, 1, Len(out.parsed.companyPrefix)) = out.parsed.companyPrefix
        /\ arg.text = <<"u", "r", "n", ":", "e", "p", "c", ":", "i", "d", ":", "s", "g", "t", "i", "n", ":", "0", "8", "6", "6", "9", "9", ".", "0", "9", "8", "8", "2", "2", "9", ".", "7", "2", "9", "1", "6", "5", "0", "2", "3", "8", "9">>
              => out.text = <<"0", "8", "6", "6", "9", "9", "9", "8", "8", "2", "2", "9", "0">>

\* C23: when companyPrefix and indicatorItemRef have 13 digits together, the
\* last digit of the GTIN-13 is the check digit of its first 12 digits,
\* whatever the indicator digit.
C23_GtinCheckDigitIsValid ==
    out.fn = "sgtinToGtin13"
    /\ Len(out.parsed.companyPrefix) + Len(out.parsed.indicatorItemRef) = 13
        => DigitOf(out.text[13]) = (10 - (SumUpTo(SubSeq(out.text, 1, 12), 12) % 10)) % 10

\* C24: gtinToFqdn gives the digits of its argument last to first, each a
\* label of its own followed by a dot, and then the suffix; the first
\* len(gtin) labels read backwards are the argument.
C24_FqdnIsReversedDigits ==
    out.fn = "gtinToFqdn" =>
        LET n == Len(arg.text) IN
        /\ Len(out.text) = (IF n = 0 THEN 1 ELSE 2 * n) + Len(OnsSuffix)
        /\ \A k \in 1..n : out.text[2 * k - 1] = arg.text[n + 1 - k] /\ out.text[2 * k] = "."
        /\ SubSeq(out.text, Len(out.text) - Len(OnsSuffix), Len(out.text)) = <<".">> \o OnsSuffix
        /\ [k \in 1..n |-> out.text[2 * (n + 1 - k) - 1]] = arg.text
        /\ arg.text = <<"0", "8", "6", "6", "9", "9", "9", "8", "8", "2", "2", "9", "0">>
              => out.text = <<"0", ".", "9", ".", "2", ".", "2", ".", "8", ".", "8", ".", "9", ".", "9", ".", "9", ".", "6", ".", "6", ".", "8", ".", "0", ".", "g", "t", "i", "n", ".", "g", "s", "1", ".", "i", "d", ".", "t", "e", "s", "t", "i", "n", "g", ".", "g", "d", "s", "o", ".", "o", "r", "g">>

\* C24 witness: the query name of "0866999882290" has been built.
C24_Witness ==
    /\ out.fn = "gtinToFqdn"
    /\ arg.text = <<"0", "8", "6", "6", "9", "9", "9", "8", "8", "2", "2", "9", "0">>
    /\ SubSeq(out.text, 1, 4) = <<"0", ".", "9", ".">>

\* ========================================================================
\* Properties of the NAPTR parsing in resolveOns (SpecResolve)
\* ========================================================================
\* the step delivers a 2xx DNS response with the JSON envelope number n
DnsAnswers(n) ==
    /\ frame.pc = "dns" /\ lastResp' # lastResp
    /\ ResponseOk(lastResp') /\ lastResp'.json /\ lastResp'.body = n

Descriptor(service, url) == [service |-> service, url |-> url]

\* C25: the record of the GetTireBySgtin service at http://m1/v1, in
\* bare-token form (envelope 1) and in quoted-field form (envelope 3), gives
\* the same descriptor, and resolveOns finds the service in either form.
C25_BothFormsGiveTheService ==
    [][\A n \in {1, 3} :
          DnsAnswers(n) /\ (\E i \in 1..Len(DnsEnvelopes[n].Answer) :
                               DnsEnvelopes[n].Answer[i] \in {RecBare1, RecQuoted})
             => /\ frame'.outcome = "returned"
                /\ frame'.resultOns.apiUrl = <<"h", "t", "t", "p", ":", "/", "/", "m", "1", "/", "v", "1">>
                /\ \E j \in 1..Len(frame'.resultOns.services) :
                      frame'.resultOns.services[j]
                         = Descriptor(<<"G", "e", "t", "T", "i", "r", "e", "B", "y", "S", "g", "t", "i", "n">>, <<"h", "t", "t", "p", ":", "/", "/", "m", "1", "/", "v", "1">>)]_vars

\* the descriptors of the records of envelope n that match, in answer order
ExpectedServices(n) ==
    CASE n = 1 -> <<Descriptor(<<"G", "e", "t", "T", "i", "r", "e", "B", "y", "S", "g", "t", "i", "n">>, <<"h", "t", "t", "p", ":", "/", "/", "m", "1", "/", "v", "1">>)>>
      [] n = 2 -> <<Descriptor(<<"G", "e", "t", "I", "n", "f", "o">>, <<"h", "t", "t", "p", ":", "/", "/", "x">>),
                    Descriptor(<<"G", "e", "t", "T", "i", "r", "e", "B", "y", "S", "g", "t", "i", "n">>, <<"h", "t", "t", "p", "s", ":", "/", "/", "a", "p", "i", ".", "e", "x", "a", "m", "p", "l", "e", ".", "c", "o", "m", "/", "v", "1">>),
                    Descriptor(<<"u", "r", "n", ":", "g", "d", "s", "o", ":", "G", "e", "t", "T", "i", "r", "e", "B", "y", "S", "g", "t", "i", "n">>, <<"h", "t", "t", "p", "s", ":", "/", "/", "m", "2", "/">>),
                    Descriptor(<<"u", "r", "n", ":", "g", "d", "s", "o", ":", "G", "e", "t", "T", "i", "r", "e", "B", "y", "S", "g", "t", "i", "n">>, <<"h", "t", "t", "p", "s", ":", "/", "/", "m", "2", "/">>),
                    Descriptor(<<"G", "e", "t", "T", "i", "r", "e", "B", "y", "S", "g", "t", "i", "n">>, <<"h", "t", "t", "p", ":", "/", "/", "m", "1", "/", "v", "1">>)>>
      [] n = 6 -> <<Descriptor(<<"G", "e", "t", "I", "n", "f", "o">>, <<"h", "t", "t", "p", ":", "/", "/", "x">>)>>

\* C26: records that match no form, or whose regexp field holds no http or
\* https URL, are skipped without raising; the services are one descriptor
\* per matching record, in answer order, duplicates kept; apiUrl is the URL
\* of the first descriptor whose tag contains GetTireBySgtin, and for the
\* field !^.*$!https://api.example.com/v1! the URL is
\* https://api.example.com/v1. Without such a descriptor NaptrNotFoundError
\* is raised.
C26_ServicesInAnswerOrder ==
    [][\A n \in {1, 2, 6} :
          DnsAnswers(n) =>
             LET sv == ExpectedServices(n)
                 tagged == {j \in 1..Len(sv) : Includes(sv[j].service, <<"G", "e", "t", "T", "i", "r", "e", "B", "y", "S", "g", "t", "i", "n">>)}
             IN  IF tagged = {}
                 THEN frame'.outcome = "raised" /\ frame'.error = NaptrNotFoundError
                 ELSE /\ frame'.outcome = "returned"
                      /\ frame'.resultOns.services = sv
                      /\ \E j \in tagged :
                            /\ \A k \in tagged : j <= k
                            /\ frame'.resultOns.apiUrl = sv[j].url]_vars

\* C26 witness: resolveOns has returned on the second envelope, with five
\* services out of seven records and the URL of the first tagged one.
C26_Witness ==
    /\ frame.entry = "resolveOns" /\ frame.pc = "done" /\ frame.outcome = "returned"
    /\ lastResp.json /\ lastResp.body = 2
    /\ Len(frame.resultOns.services) = 5
    /\ frame.resultOns.apiUrl = <<"h", "t", "t", "p", "s", ":", "/", "/", "a", "p", "i", ".", "e", "x", "a", "m", "p", "l", "e", ".", "c", "o", "m", "/", "v", "1">>

\* ========================================================================
\* Properties of the token expiry (SpecAuth)
\* ========================================================================
\* C27: after a successful authenticate the stored expiry is a definite
\* timestamp: for a bare token the exp claim (seconds) times 1000, or now + 1
\* hour when the payload does not decode; for a JSON body now + expires_in
\* seconds, 3600 when absent; the stored token is the bare token or the first
\* present of AccessToken, access_token, IdToken.
C27_ExpiryIsDefinite ==
    [][frame.pc = "auth" /\ frame'.outcome = "returned" =>
          LET b == TokenBodies[lastResp'.body] IN
          /\ tokenExpiry' >= 0
          /\ b.kind = "jwt" =>
                /\ token' = b.token
                /\ ~b.decodes => tokenExpiry' = now + 3600000
                /\ b.decodes /\ b.life # UndefinedNum
                      => tokenExpiry' = ((now + b.life) \div 1000) * 1000
          /\ b.kind = "json" =>
                /\ token' = (IF b.AccessToken # Undefined THEN b.AccessToken
                             ELSE IF b.access_token # Undefined THEN b.access_token
                             ELSE b.IdToken)
                /\ tokenExpiry' = now + 1000 * (IF b.expires_in = UndefinedNum THEN 3600
                                                ELSE b.expires_in)]_vars


\* ------------------------------------------------------------------------
\* Candidate URLs
\* ------------------------------------------------------------------------
\* the base URL without one trailing slash
OneSlashStripped(url) ==
    IF Len(url) > 0 /\ url[Len(url)] = "/" THEN SubSeq(url, 1, Len(url) - 1) ELSE url

\* a template is {baseUrl}, a middle part, {sgtin}: the URL it gives for a
\* base and an identifier text
TemplateUrl(template, url, id) ==
    OneSlashStripped(url) \o SubSeq(template, 10, Len(template) - 7) \o id

\* C28: a profile with one template gives exactly two candidates, the
\* template filled with the percent-encoded identifier and with the raw
\* one; a profile with several templates (the default profile has three)
\* gives two per template, encoded then raw, in template order, none twice;
\* in every candidate the base URL has lost one trailing slash
C28_CandidatesPerTemplate ==
    out.fn = "callManufacturerApi" =>
        LET m == arg.manufacturer
            enc == encodeURIComponent(arg.text)
        IN  /\ \A i, j \in 1..Len(out.urls) : out.urls[i] = out.urls[j] => i = j
            /\ IF m.hasPatterns
               THEN /\ Len(out.urls) = 2 * Len(m.urlPatterns)
                    /\ \A k \in 1..Len(m.urlPatterns) :
                          /\ out.urls[2 * k - 1] = TemplateUrl(m.urlPatterns[k], arg.apiUrl, enc)
                          /\ out.urls[2 * k] = TemplateUrl(m.urlPatterns[k], arg.apiUrl, arg.text)
               ELSE /\ Len(out.urls) = 2
                    /\ {out.urls[1], out.urls[2]}
                         = {TemplateUrl(m.urlPattern, arg.apiUrl, enc),
                            TemplateUrl(m.urlPattern, arg.apiUrl, arg.text)}

\* C28 happens: the default profile, a base URL ending in a slash, six candidates
C28_Witness ==
    /\ out.fn = "callManufacturerApi"
    /\ arg.manufacturer.hasPatterns
    /\ Len(arg.manufacturer.urlPatterns) = 3
    /\ arg.apiUrl[Len(arg.apiUrl)] = "/"
    /\ Len(out.urls) = 6
    /\ out.urls[2] = OneSlashStripped(arg.apiUrl) \o <<"/">> \o arg.text


\* ------------------------------------------------------------------------
\* getTireInfoBatch
\* ------------------------------------------------------------------------
\* the company prefix of an accepted identifier: the digits before the
\* first dot
PrefixOf(sgtin) ==
    LET rest == SubSeq(sgtin, Len(UrnPrefix) + 1, Len(sgtin))
        dot == CHOOSE i \in 1..Len(rest) : rest[i] = "." /\ \A k \in 1..(i - 1) : rest[k] # "."
    IN  SubSeq(rest, 1, dot - 1)

\* the identifiers of the input list that have a company prefix, in input order
GroupOf(prefix) == SelectSeq(arg.sgtins, LAMBDA s : PrefixOf(s) = prefix)

\* the slices handed to callBatchApi so far for a company prefix, one
\* after the other
RECURSIVE SentOf(_, _)
SentOf(slices, prefix) ==
    IF Len(slices) = 0 THEN <<>>
    ELSE (IF PrefixOf(Head(slices).batch[1]) = prefix THEN Head(slices).batch ELSE <<>>)
         \o SentOf(Tail(slices), prefix)

BatchRunning == out.fn = "getTireInfoBatch" /\ out.pc \notin {"idle", "raised"}

\* C29: the slices sent for a group are consecutive slices of the group in
\* input order, each of 1 to 100 identifiers of the group's company prefix
\* (the body of every POST is the slice), and when the call returns every
\* identifier of a group of more than one is in exactly one slice; a group
\* of one identifier has no slice and is looked up with callManufacturerApi
C29_ChunksPartitionTheGroup ==
    BatchRunning =>
        /\ \A n \in 1..Len(out.slices) :
              /\ Len(out.slices[n].batch) \in 1..100
              /\ \A k \in 1..Len(out.slices[n].batch) :
                    PrefixOf(out.slices[n].batch[k]) = PrefixOf(out.slices[n].batch[1])
        /\ \A prefix \in {PrefixOf(arg.sgtins[m]) : m \in 1..Len(arg.sgtins)} :
              LET group == GroupOf(prefix)
                  sent == SentOf(out.slices, prefix)
              IN  /\ Len(sent) <= Len(group)
                  /\ sent = SubSeq(group, 1, Len(sent))
                  /\ Len(group) = 1 => sent = <<>>
                  /\ out.pc = "returned" /\ Len(group) > 1 => sent = group
                  /\ out.pc = "returned" /\ Len(group) = 1 =>
                        \E r \in 1..Len(out.results) : out.results[r].sgtin = group[1]
        /\ (\E q \in 1..Len(net) : net[q].kind = "post") =>
              /\ frame.entry = "callBatchApi"
              /\ frame.sgtins = out.slices[Len(out.slices)].batch
        /\ out.pc = "single" =>
              /\ frame.entry = "callManufacturerApi"
              /\ GroupOf(PrefixOf(frame.sgtin)) = <<frame.sgtin>>
              /\ \A q \in 1..Len(net) : net[q].kind # "post"

\* C29 happens: a group of two chunks and one identifier has been sent in
\* three slices, and the call has returned
C29_Witness ==
    /\ out.fn = "getTireInfoBatch"
    /\ out.pc = "returned"
    /\ Len(arg.sgtins) = 2 * BatchLimit + 1
    /\ Len(out.slices) = 3
    /\ Len(out.slices[1].batch) = BatchLimit
    /\ Len(out.slices[3].batch) = 1

\* the chunk the batch is at: the slice of the group that starts at out.i
ChunkAt(o) ==
    LET group == GroupOf(o.groups[o.g].prefix)
    IN  SubSeq(group, o.i + 1, IF o.i + 100 < Len(group) THEN o.i + 100 ELSE Len(group))

\* C30: when callBatchApi returns something that is not an array, each
\* identifier of the chunk, and only of it, is looked up with
\* callManufacturerApi in chunk order and gives one result with that
\* identifier and the lookup's payload or null; after the last one the
\* next chunk of the group is sent as a batch, as if nothing had happened
C30_FallbackPerChunk ==
    [][/\ (/\ out.fn = "getTireInfoBatch" /\ out.pc = "batch" /\ out' # out
           /\ frame.outcome = "returned" /\ frame.resultBatch.kind # "array")
          => /\ out'.pc = "fallback"
             /\ out'.results = out.results
             /\ out'.slices = out.slices
             /\ frame'.entry = "callManufacturerApi"
             /\ frame'.sgtin = ChunkAt(out)[1]
       /\ (/\ out.fn = "getTireInfoBatch" /\ out.pc = "fallback" /\ out' # out
           /\ frame.outcome = "returned")
          => LET chunk == ChunkAt(out)
                 n == Len(out.results) + 1
             IN  /\ frame.sgtin = chunk[out.j]
                 /\ Len(out'.results) = n
                 /\ SubSeq(out'.results, 1, n - 1) = out.results
                 /\ out'.results[n].sgtin = chunk[out.j]
                 /\ out'.results[n].data = frame.resultData
                 /\ frame.resultData.payload \in {0, 1}
                 /\ IF out.j < Len(chunk)
                    THEN /\ out'.pc = "fallback"
                         /\ out'.slices = out.slices
                         /\ frame'.entry = "callManufacturerApi"
                         /\ frame'.sgtin = chunk[out.j + 1]
                    ELSE IF out.i + 100 < Len(GroupOf(out.groups[out.g].prefix))
                    THEN /\ out'.pc = "batch"
                         /\ Len(out'.slices) = Len(out.slices) + 1
                         /\ out'.slices[Len(out'.slices)].batch
                              = ChunkAt([out EXCEPT !.i = out.i + 100])
                    ELSE /\ out'.pc \in {"resolve", "returned"}
                         /\ out'.slices = out.slices]_vars

\* C30 happens: of a group of 101 the first chunk fell back to 100 lookups,
\* some with a payload and some with null, and the second chunk was
\* answered with an array
C30_Witness ==
    /\ out.fn = "getTireInfoBatch"
    /\ out.pc = "returned"
    /\ Len(arg.sgtins) = BatchLimit + 2
    /\ Len(out.slices) = 2
    /\ Len(out.results) = BatchLimit + 2
    /\ out.results[2].sgtin = arg.sgtins[1]
    /\ out.results[2].data.payload = 1
    /\ out.results[3].sgtin = arg.sgtins[3]
    /\ out.results[3].data.payload = 0
    /\ out.results[BatchLimit + 2].sgtin = arg.sgtins[BatchLimit + 2]
    /\ out.results[BatchLimit + 2].data.uii = arg.sgtins[BatchLimit + 2]


\* ------------------------------------------------------------------------
\* authenticate: failures
\* ------------------------------------------------------------------------
\* C33: a call of authenticate that raises leaves the stored token and the
\* stored expiry as they were: no step of a call that does not return
\* changes either
C33_FailedAuthLeavesSession ==
    [][(frame'.entry = "authenticate" /\ frame'.outcome # "returned")
          => (token' = token /\ tokenExpiry' = tokenExpiry)]_vars


\* ------------------------------------------------------------------------
\* resolveOns: failures and the cache
\* ------------------------------------------------------------------------
\* a step of a resolveOns call that has not returned: the call itself, an
\* answer, the end of a sleep
UnreturnedResolveStep ==
    /\ frame' # frame
    /\ frame'.entry = "resolveOns"
    /\ frame'.outcome # "returned"

\* such a step leaves the cache as it was, but for the call itself, which
\* may remove the expired entry of the GTIN-13 it looks up
CacheKeptOrExpiredDropped ==
    \/ onsCache' = onsCache
    \/ /\ frame.pc \in {"idle", "done"}
       /\ parseSgtin(frame'.sgtin).ok
       /\ \E i \in 1..Len(onsCache) :
             /\ onsCache[i].key = sgtinToGtin13(parseSgtin(frame'.sgtin))
             /\ onsCache[i].expiry < now
             /\ onsCache' = SelectSeq(onsCache, LAMBDA e : e.key # onsCache[i].key)

\* resolveOns is called again with the identifier of the call that has just raised
CalledAgainAfterRaise ==
    /\ frame.pc = "done"
    /\ frame.entry = "resolveOns"
    /\ frame.outcome = "raised"
    /\ frame' # frame
    /\ frame'.sgtin = frame.sgtin

\* C37: a resolveOns that raises leaves the keys, values and expiries of the
\* cache as they were, apart from the removal of an expired entry of the
\* GTIN-13 looked up, and the next resolveOns of the same identifier sends a
\* DNS request again
C37_FailuresNeverCached ==
    [][/\ UnreturnedResolveStep => CacheKeptOrExpiredDropped
       /\ CalledAgainAfterRaise => (frame'.pc = "dns" /\ KindCount("dns")' = 1)]_vars

\* C37 as it holds: the same, the next resolveOns sending a DNS request
\* again when the identifier is well formed; a malformed identifier is
\* refused again before any request
C37_FailuresNeverCachedWellFormed ==
    [][/\ UnreturnedResolveStep => CacheKeptOrExpiredDropped
       /\ CalledAgainAfterRaise =>
             IF parseSgtin(frame.sgtin).ok
             THEN frame'.pc = "dns" /\ KindCount("dns")' = 1
             ELSE /\ frame'.outcome = "raised" /\ frame'.error = SgtinParseError
                  /\ net' = <<>> /\ onsCache' = onsCache]_vars

\* C37 happens: the entry of the GTIN-13 had expired when resolveOns was
\* called, the call has raised after its DNS requests, the entry is gone and
\* nothing has taken its place
C37_Witness ==
    /\ frame.entry = "resolveOns"
    /\ frame.pc = "done"
    /\ frame.outcome = "raised"
    /\ frame.error.name = "RetryExhaustedError"
    /\ KindCount("dns") > 0
    /\ \E r \in frame.startStored :
          /\ r.gtin13 = sgtinToGtin13(parseSgtin(frame.sgtin))
          /\ r.at + cfg.cacheTtlMs < frame.startNow
          /\ r \in stored
    /\ \A i \in 1..Len(onsCache) : onsCache[i].key # sgtinToGtin13(parseSgtin(frame.sgtin))


\* ------------------------------------------------------------------------
\* Validation before the network
\* ------------------------------------------------------------------------
SessionUntouched ==
    /\ onsCache' = onsCache
    /\ token' = token
    /\ tokenExpiry' = tokenExpiry

\* C38: getTireInfo of a malformed identifier, and getTireInfoBatch of a
\* list with a malformed identifier at any place, raise SgtinParseError at
\* the call, before any DNS, token or manufacturer request, with the cache
\* and the stored token as they were; the batch has pushed no result
C38_ValidationPrecedesNetwork ==
    [][/\ (/\ frame.pc \in {"idle", "done"} /\ frame' # frame
           /\ frame'.entry = "getTireInfo" /\ ~parseSgtin(frame'.sgtin).ok)
          => /\ frame'.pc = "done" /\ frame'.outcome = "raised"
             /\ frame'.error = SgtinParseError
             /\ net' = <<>>
             /\ SessionUntouched
       /\ (/\ out.fn = "getTireInfoBatch" /\ out.pc = "idle" /\ out' # out
           /\ \E k \in 1..Len(arg.sgtins) : ~parseSgtin(arg.sgtins[k]).ok)
          => /\ out'.pc = "raised"
             /\ out'.error = SgtinParseError
             /\ out'.results = <<>>
             /\ frame' = frame /\ net' = net
             /\ SessionUntouched]_vars

\* C38 happens: the batch was called with a malformed identifier in second
\* place, on a service with a cached resolution and a token, and has raised
C38_Witness ==
    /\ out.fn = "getTireInfoBatch"
    /\ out.pc = "raised"
    /\ out.error = SgtinParseError
    /\ Len(arg.sgtins) >= 2
    /\ parseSgtin(arg.sgtins[1]).ok
    /\ ~parseSgtin(arg.sgtins[2]).ok
    /\ Len(onsCache) > 0
    /\ TokenSet(token)


\* ------------------------------------------------------------------------
\* C32: caching is transparent
\* ------------------------------------------------------------------------
\* the DNS answer last received for a GTIN-13, as the service remembers it
LastAnswerFor(answers, gtin13) == {r \in answers : r.gtin13 = gtin13}

\* what a service without cache returns for an identifier under that answer
UncachedResolution(sgtin, answer) ==
    LET parsed == parseSgtin(sgtin) IN
    [parsed |-> parsed, gtin13 |-> sgtinToGtin13(parsed),
     fqdn |-> gtinToFqdn(sgtinToGtin13(parsed)),
     manufacturer |-> getManufacturerConfig(parsed.companyPrefix),
     apiUrl |-> answer.apiUrl, services |-> answer.services]

ResolveOnsReturns ==
    /\ frame' # frame
    /\ frame'.entry = "resolveOns"
    /\ frame'.outcome = "returned"

\* C32: a resolveOns call that returns, from the cache or from a DNS answer,
\* returns the resolution a service without cache returns for the same
\* identifier under the same DNS answer: gtin13, fqdn, apiUrl, services, the
\* parse of the identifier of the call and the manufacturer profile of that
\* identifier's own company prefix
C32_CachingIsTransparent ==
    [][ResolveOnsReturns
           => \E answer \in LastAnswerFor(stored', frame'.resultOns.gtin13) :
                  frame'.resultOns = UncachedResolution(frame'.sgtin, answer)]_vars


\* ------------------------------------------------------------------------
\* C34, C35: the results of getTireInfoBatch
\* ------------------------------------------------------------------------
BatchReturned == out.fn = "getTireInfoBatch" /\ out.pc = "returned"

\* how many results carry an identifier
ResultsFor(sgtin) == Len(SelectSeq(out.results, LAMBDA r : r.sgtin = sgtin))

\* C34: when getTireInfoBatch returns, it returns exactly one result per
\* input identifier, whatever the batch endpoint answered: as many results
\* as identifiers, and every identifier of the list in as many results as
\* the list has it
C34_OneResultPerIdentifier ==
    BatchReturned =>
        /\ Len(out.results) = Len(arg.sgtins)
        /\ \A k \in 1..Len(arg.sgtins) :
              ResultsFor(arg.sgtins[k]) = Len(SelectSeq(arg.sgtins, LAMBDA s : s = arg.sgtins[k]))


\* the result getTireInfo gives for an identifier under the DNS answer of
\* the run: its own GTIN-13 and the endpoint resolved for that GTIN-13
OwnGtin13(sgtin) == sgtinToGtin13(parseSgtin(sgtin))

\* C35: every result of getTireInfoBatch has the GTIN-13 derived from the
\* identifier of that result, and the endpoint resolved for that GTIN-13,
\* also when the identifier has the company prefix of the first identifier
\* of its group but another item reference
C35_ResultGtinIsOwn ==
    BatchReturned =>
        \A k \in 1..Len(out.results) :
            out.results[k].sgtin # <<>> =>
                /\ out.results[k].gtin13 = OwnGtin13(out.results[k].sgtin)
                /\ \E answer \in LastAnswerFor(stored, OwnGtin13(out.results[k].sgtin)) :
                       out.results[k].apiUrl = answer.apiUrl


\* ------------------------------------------------------------------------
\* C39: has, delete, size and stats
\* ------------------------------------------------------------------------
\* the entry of a key that get(key) would return the value of: it is in the
\* Map and the time is not past its expiry
LiveEntries(cache, key, time) ==
    {cache[i] : i \in {j \in 1..Len(cache) : cache[j].key = key /\ ~(time > cache[j].expiry)}}

StepOf(ops) == lru'.op \in ops /\ now' = now

\* C39: has(key) is true exactly when get(key) would return a value, and
\* does to the cache what get(key) does: a live key becomes the most
\* recently used one, an expired entry is removed, nothing else changes;
\* delete, size and stats leave the remaining entries in their order (size
\* and stats remove nothing, not even an expired entry), and stats counts
\* the entries and the expired ones among them
C39_HasIsGetAndQueriesKeepOrder ==
    [][/\ StepOf({"has"}) =>
             LET k == lru'.key
                 live == LiveEntries(lru.cache, k, now)
             IN  /\ lru'.result = (IF live # {} THEN 1 ELSE 0)
                 /\ Without(lru'.cache, k) = Without(lru.cache, k)
                 /\ IF live # {}
                    THEN /\ lru'.cache[Len(lru'.cache)] \in live
                         /\ Len(lru'.cache) = Len(lru.cache)
                         /\ lru'.recent[Len(lru'.recent)] = k
                    ELSE /\ k \notin KeysOf(lru'.cache)
                         /\ lru'.recent = SelectSeq(lru.recent, LAMBDA x : x # k)
       /\ StepOf({"delete"}) =>
             /\ lru'.cache = Without(lru.cache, lru'.key)
             /\ lru'.recent = SelectSeq(lru.recent, LAMBDA x : x # lru'.key)
             /\ lru'.result = (IF lru'.key \in KeysOf(lru.cache) THEN 1 ELSE 0)
       /\ StepOf({"size", "stats"}) =>
             /\ lru'.cache = lru.cache
             /\ lru'.recent = lru.recent
       /\ StepOf({"size"}) => lru'.result = Cardinality(KeysOf(lru.cache))
       /\ StepOf({"stats"}) =>
             /\ lru'.result.size = Cardinality(KeysOf(lru.cache))
             /\ lru'.result.expired =
                    Cardinality({k \in KeysOf(lru.cache) : LiveEntries(lru.cache, k, now) = {}})]_vars

\* C39 witness: has(key) has just removed the expired entry of its key and
\* answered false, another entry staying in the cache
C39_Witness ==
    /\ lru.op = "has"
    /\ lru.result = 0
    /\ \E e \in lru.gone : e.key = lru.key /\ now > e.expiry
    /\ Len(lru.cache) >= 1


\* ------------------------------------------------------------------------
\* Two calls in flight on one service. The service has one thread: a call
\* runs until its next await, where another call may run. The first call is
\* in `frame`, `retry` and `net` as before; the second call has its own
\* frame, its own withRetry loop and its own requests in `out`. The cache,
\* the token slot and the clock are the service's and are shared.
\* ------------------------------------------------------------------------
SecondIdle == [fn |-> "second", frame |-> IdleFrame, retry |-> IdleRetry, net |-> <<>>]

\* the state the second call reads
Other == [Cur EXCEPT !.frame = out.frame, !.retry = out.retry, !.net = out.net]

\* the state after a step of the second call
ApplyOther(S, resp) ==
    /\ now' = S.now
    /\ onsCache' = S.onsCache
    /\ token' = S.token
    /\ tokenExpiry' = S.tokenExpiry
    /\ stored' = S.stored
    /\ out' = [out EXCEPT !.frame = S.frame, !.retry = S.retry, !.net = S.net]
    /\ lastResp' = resp
    /\ UNCHANGED <<frame, net, retry, cfg, ClsVars, lru, arg>>

SecondCanCall == out.frame.pc \in {"idle", "done"}

SecondCallAuthenticate ==
    /\ SecondCanCall
    /\ ApplyOther(authenticate(NewFrame("authenticate", <<>>, <<>>, NoManufacturer)), NoResp)

SecondTokenResponds(responses) ==
    /\ out.frame.pc = "auth"
    /\ \E resp \in responses : ApplyOther(OnTokenResponse(Other, resp), resp)

\* sleep(currentDelay) of the second call is over
SecondSleepDone(pc, kind, target) ==
    LET r == WR_Wake(out.retry)
        S == [Other EXCEPT !.now = now + out.retry.currentDelay, !.retry = r]
    IN  /\ now + out.retry.currentDelay <= MaxElapsed
        /\ IF r.pc = "calling"
           THEN ApplyOther(Send([S EXCEPT !.frame.pc = pc], kind, target, NoToken), lastResp)
           ELSE ApplyOther(Raise(S, r.error), lastResp)

SecondAuthSleepDone ==
    /\ out.frame.pc = "authSleep"
    /\ SecondSleepDone("auth", "token", <<>>)

\* two authenticate calls on a service with credentials
InitAuthRace ==
    /\ retry = IdleRetry
    /\ clsErr = NoError
    /\ clsOut = "unset"
    /\ cfg \in Options({TRUE}, {TRUE}, {UndefinedNum})
    /\ Constructed
    /\ lru = NewLRUCache(UndefinedNum, UndefinedNum)
    /\ arg = [type |-> "undefined", text |-> <<>>]
    /\ out = SecondIdle

NextAuthRace ==
    \/ CallAuthenticate
    \/ SecondCallAuthenticate
    \/ TokenResponds(TokenResponsesFew)
    \/ SecondTokenResponds(TokenResponsesFew)
    \/ AuthSleepDone
    \/ SecondAuthSleepDone
    \/ TickAnywhere

SpecAuthRace == InitAuthRace /\ [][NextAuthRace]_vars

\* ------------------------------------------------------------------------
\* C36: the token slot under two authenticate calls
\* ------------------------------------------------------------------------
\* the token a 2xx response delivers, and the expiry that goes with it when
\* the response is read at `time`
DeliveredToken(b) ==
    IF b.kind = "jwt" THEN b.token
    ELSE IF TokenSet(b.AccessToken) THEN b.AccessToken
    ELSE IF TokenSet(b.access_token) THEN b.access_token
    ELSE b.IdToken

DeliveredExpiry(b, time) ==
    IF b.kind = "jwt"
    THEN (IF ~b.decodes THEN time + 3600000
          ELSE IF b.life = UndefinedNum THEN NaNNum
          ELSE ((time + b.life) \div 1000) * 1000)
    ELSE time + (IF Truthy(b.expires_in) THEN b.expires_in ELSE 3600) * 1000

SlotWritten == token' # token \/ tokenExpiry' # tokenExpiry

AuthReturns(f, g) == g # f /\ g.entry = "authenticate" /\ g.outcome = "returned"

\* C36: with two authenticate calls interleaved at their awaits, the token
\* slot is only ever written with the token and the expiry of one and the
\* same successful response, both in one step (so that at every await and
\* after both calls the stored token and expiry belong together), and a
\* call that returns returns the stored token, which a successful response
\* delivered
C36_TokenSlotIsOneResponse ==
    [][/\ SlotWritten =>
             /\ ResponseOk(lastResp')
             /\ lastResp'.body # 0
             /\ TokenSet(token')
             /\ token' = DeliveredToken(TokenBodies[lastResp'.body])
             /\ tokenExpiry' = DeliveredExpiry(TokenBodies[lastResp'.body], now')
       /\ AuthReturns(frame, frame') =>
             /\ TokenSet(frame'.resultToken)
             /\ frame'.resultToken = token'
       /\ AuthReturns(out.frame, out'.frame) =>
             /\ TokenSet(out'.frame.resultToken)
             /\ out'.frame.resultToken = token']_vars


\* ------------------------------------------------------------------------
\* Two resolveOns calls in flight for one GTIN-13, on a cache that holds
\* other products: none, one, one less than its capacity, or full
\* ------------------------------------------------------------------------
SecondCallResolveOns(sgtins) ==
    /\ SecondCanCall
    /\ \E s \in sgtins :
          ApplyOther(resolveOns(NewFrame("resolveOns", s, <<>>, NoManufacturer)), NoResp)

SecondDnsResponds(responses) ==
    /\ out.frame.pc = "dns"
    /\ \E resp \in responses : ApplyOther(OnDnsResponse(Other, resp), resp)

SecondDnsSleepDone ==
    /\ out.frame.pc = "dnsSleep"
    /\ SecondSleepDone("dns", "dns", out.frame.ons.fqdn)

\* the cache entry of the n-th other product, resolved at time 0
OtherProduct(n) ==
    LET parsed == parseSgtin(Sgtin(<<"3", "0", "0", "0", "0", "0">>,
                                   <<"0", "0", "0">> \o Decimal(1000 + n), <<"1">>))
        gtin13 == sgtinToGtin13(parsed)
    IN  [key |-> gtin13,
         value |-> [gtin13 |-> gtin13, fqdn |-> gtinToFqdn(gtin13),
                    manufacturer |-> getManufacturerConfig(parsed.companyPrefix),
                    apiUrl |-> <<"h", "t", "t", "p", ":", "/", "/", "m", "1", "/", "v", "1">>,
                    services |-> <<>>],
         expiry |-> 3600000]

Filled(n) == [k \in 1..n |-> OtherProduct(k)]

RaceSgtins == {SgtinA1, SgtinA2, SgtinA3}
RaceDnsResponses ==
    {Resp("response", 503, FALSE, 0), Resp("response", 200, TRUE, 1), Resp("response", 200, TRUE, 4)}

InitRace ==
    /\ retry = IdleRetry
    /\ clsErr = NoError
    /\ clsOut = "unset"
    /\ cfg \in Options({TRUE}, {TRUE}, {UndefinedNum})
    /\ now = 0
    /\ arg \in [type : {"cache"}, fill : {0, 1, OnsCacheMaxSize - 1, OnsCacheMaxSize}]
    /\ onsCache = Filled(arg.fill)
    /\ token = NoToken
    /\ tokenExpiry = NullNum
    /\ frame = IdleFrame
    /\ net = <<>>
    /\ lastResp = NoResp
    /\ stored = {}
    /\ lru = NewLRUCache(UndefinedNum, UndefinedNum)
    /\ out = SecondIdle

\* each of the two calls is made once, at any moment
NextRace ==
    \/ frame.pc = "idle" /\ CallResolveOns(RaceSgtins)
    \/ out.frame.pc = "idle" /\ SecondCallResolveOns(RaceSgtins)
    \/ DnsResponds(RaceDnsResponses)
    \/ SecondDnsResponds(RaceDnsResponses)
    \/ DnsSleepDone
    \/ SecondDnsSleepDone

SpecRace == InitRace /\ [][NextRace]_vars


\* ------------------------------------------------------------------------
\* C31: two resolveOns calls racing for one cache key
\* ------------------------------------------------------------------------
\* both calls missed the cache, asked the DNS, and returned; their
\* identifiers have the same GTIN-13
BothResolved ==
    /\ frame.entry = "resolveOns" /\ frame.outcome = "returned" /\ Len(net) > 0
    /\ out.frame.entry = "resolveOns" /\ out.frame.outcome = "returned" /\ Len(out.net) > 0
    /\ CacheKey(parseSgtin(frame.sgtin)) = CacheKey(parseSgtin(out.frame.sgtin))

\* the cache holds one entry for the key of the two calls, with the value a
\* single resolution of one of the two identifiers stores
OneEntryOfOneResolution ==
    LET key == CacheKey(parseSgtin(frame.sgtin)) IN
    /\ Len(SelectSeq(onsCache, LAMBDA e : e.key = key)) = 1
    /\ \E s \in {frame.sgtin, out.frame.sgtin} :
       \E answer \in LastAnswerFor(stored, key) :
           EntryOf(onsCache, key).value = CacheData(UncachedResolution(s, answer))

OtherEntries == Without(onsCache, CacheKey(parseSgtin(frame.sgtin)))

SleepEnds(pc, kind, target) ==
    LET r == WR_Wake(retry)
        S == [Cur EXCEPT !.now = now + retry.currentDelay, !.retry = r]
    IN  /\ IF r.pc = "calling"
           THEN Apply(Send([S EXCEPT !.frame.pc = pc], kind, target, NoToken))
           ELSE Apply(Raise(S, r.error))
        /\ UNCHANGED <<cfg, lastResp, ClsVars, DevVars>>

DnsSleepEnds ==
    /\ frame.pc = "dnsSleep"
    /\ SleepEnds("dns", "dns", frame.ons.fqdn)

AuthSleepEnds ==
    /\ frame.pc = "authSleep"
    /\ SleepEnds("auth", "token", <<>>)

\* the one getTireInfo call of the run
LiveCall == frame.pc = "idle" /\ retry.pc = "idle" /\ CallGetTireInfo(SgtinFew)

\* the one withRetry call of the run, its operation and its sleep
\* (the delays and the callback take no part in how long the loop runs)
LivePolicies ==
    [maxAttempts : {UndefinedNum} \cup 1..MaxAttemptsBound, delayMs : {UndefinedNum},
     backoffMultiplier : {UndefinedNum},
     shouldRetry : {Undefined, "always", "notNoRetry"}, onRetry : {FALSE}]

LiveRetryCall ==
    /\ frame.pc = "idle"
    /\ retry.pc = "idle"
    /\ \E o \in LivePolicies : retry' = WR_Start(o)
    /\ UNCHANGED <<ClsVars, DevVars, ServiceVars>>
LiveOpAnswers == frame.pc = "idle" /\ (RetryOpSucceeds \/ RetryOpFails)
LiveRetrySleepDone == frame.pc = "idle" /\ RetrySleepDone

NextLive ==
    \/ LiveCall
    \/ DnsResponds(DnsResponsesFew)
    \/ TokenResponds(TokenResponsesFew)
    \/ GetResponds
    \/ DnsSleepEnds
    \/ AuthSleepEnds
    \/ LiveRetryCall
    \/ LiveOpAnswers
    \/ LiveRetrySleepDone

SpecLive ==
    /\ Init
    /\ [][NextLive]_vars
    /\ WF_vars(DnsResponds(DnsResponsesFew))
    /\ WF_vars(TokenResponds(TokenResponsesFew))
    /\ WF_vars(GetResponds)
    /\ WF_vars(DnsSleepEnds)
    /\ WF_vars(AuthSleepEnds)
    /\ WF_vars(LiveOpAnswers)
    /\ WF_vars(LiveRetrySleepDone)


\* ------------------------------------------------------------------------
\* C40: bounded work and termination
\* ------------------------------------------------------------------------
\* the requests of a kind the call in hand has sent
Sent(kind) == SelectSeq(net, LAMBDA q : q.kind = kind)

\* a withRetry loop is running: its operation is invoked or it sleeps
InFlight(r) == r.pc \in {"calling", "sleeping"}

\* getTireInfo has sent at most 3 DNS requests, at most 3 token requests
\* and at most one GET per candidate URL, and withRetry has invoked its
\* operation at most maxAttempts times, at least once when it has finished
BoundedWork ==
    /\ Len(Sent("dns")) <= RETRY_maxAttempts
    /\ Len(Sent("token")) <= RETRY_maxAttempts
    /\ \A i \in 1..Len(net) : \A j \in 1..Len(net) :
          (net[i].kind = "get" /\ net[j].kind = "get" /\ net[i].target = net[j].target) => i = j
    /\ \A i \in 1..Len(net) :
          net[i].kind = "get" => \E u \in 1..Len(frame.urls) : frame.urls[u] = net[i].target
    /\ Invocations(retry) <= retry.opts.maxAttempts
    /\ Finished(retry) => Invocations(retry) >= 1

\* a loop that stops running stops because its operation succeeded, or
\* failed with an error the policy does not retry, or failed on the last
\* attempt; no call starts on the service while a loop runs
LoopRunsToItsEnd ==
    (InFlight(retry) /\ ~InFlight(retry')) =>
        /\ frame'.entry = frame.entry
        /\ \/ retry'.pc = "returned" /\ LastEv(retry').ev = "ok"
           \/ /\ retry' = IdleRetry
              /\ retry.pc = "calling"
              /\ ResponseOk(lastResp')
           \/ /\ retry'.pc = "raised"
              /\ LastEv(retry').ev = "fail"
              /\ \/ retry'.attempt >= retry'.opts.maxAttempts
                 \/ ~Retryable(retry', retry'.lastError)

\* C40: provided every network call returns or fails and every sleep ends,
\* a withRetry call with maxAttempts >= 1 invokes its operation at least
\* once and at most maxAttempts times and finishes; getTireInfo finishes,
\* returning or raising, after at most 3 DNS requests, 3 token requests and
\* one GET per candidate URL; a retry loop in flight is left only on
\* success, on an error that is not retryable, or after the last attempt
C40_BoundedWorkAndTermination ==
    /\ []BoundedWork
    /\ [][LoopRunsToItsEnd]_vars
    /\ (frame.entry = "getTireInfo") ~> (frame.pc = "done")
    /\ (frame.pc = "idle" /\ InFlight(retry)) ~> Finished(retry)

\* C40 witness: getTireInfo has finished after three DNS requests and
\* three token requests, the last of which was refused
C40_Witness ==
    /\ frame.entry = "getTireInfo"
    /\ frame.pc = "done"
    /\ Len(Sent("dns")) = RETRY_maxAttempts
    /\ Len(Sent("token")) = RETRY_maxAttempts
    /\ frame.outcome = "raised"

====
